---- MODULE Spec2Model ----
(***************************************************************************)
(* Model of the cmake-file-api reply reader (src/src/reply.rs,             *)
(* src/src/index.rs, src/src/objects.rs,                                   *)
(* src/src/objects/codemodel_v2/codemodel.rs).                             *)
(*                                                                         *)
(* A file name is a sequence of one-character strings, a path a sequence   *)
(* of file names (its components).  The file system is a function from     *)
(* paths to nodes; a JSON object is a record whose DOMAIN is its key set.  *)
(* Every read of a file by read_object is one step, so that the order of   *)
(* the reads is visible; locating and parsing the index is one step.       *)
(***************************************************************************)
EXTENDS Integers, Sequences, FiniteSets, TLC

VARIABLES fs, reader, ctor, call, writer, written, cg

vars == <<fs, reader, ctor, call, writer, written, cg>>

(***************************************************************************)
(* Bounds of the model.                                                    *)
(***************************************************************************)
\* longest `objects` array of an index document
MaxCatalog == 2
\* most requests added to a Writer one by one
MaxRequests == 2
\* most files of a generated reply that are damaged (missing, unreadable, garbled)
MaxFaults == 1
\* most resolve_references calls the host makes itself on an object it holds
MaxResolves == 2

Threads == {"t1"}

(***************************************************************************)
(* File names, character by character.                                     *)
(***************************************************************************)
N_root == <<"/">>
N_build == <<"b","u","i","l","d">>
N_dotcmake == <<".","c","m","a","k","e">>
N_api == <<"a","p","i">>
N_v1 == <<"v","1">>
N_reply == <<"r","e","p","l","y">>
N_sub == <<"s","u","b">>
N_index_a == <<"i","n","d","e","x","-","a",".","j","s","o","n">>
N_index_b == <<"i","n","d","e","x","-","b",".","J","S","O","N">>
N_index_d == <<"i","n","d","e","x","-","d",".","j","s","o","n">>
N_index == <<"i","n","d","e","x",".","j","s","o","n">>
N_Index_x == <<"I","n","d","e","x","-","x",".","j","s","o","n">>
N_index_bak == <<"i","n","d","e","x","-","x",".","j","s","o","n",".","b","a","k">>
N_cm == <<"c","m",".","j","s","o","n">>
N_cache == <<"c","a","c","h","e",".","j","s","o","n">>
N_t0 == <<"t","0",".","j","s","o","n">>
N_t1 == <<"t","1",".","j","s","o","n">>
N_d0 == <<"d","0",".","j","s","o","n">>
N_d1 == <<"d","1",".","j","s","o","n">>
N_d9 == <<"d","9",".","j","s","o","n">>
N_tc == <<"t","c",".","j","s","o","n">>
N_cf == <<"c","f",".","j","s","o","n">>
N_cl == <<"c","l",".","j","s","o","n">>
N_query == <<"q","u","e","r","y">>
N_query_json == <<"q","u","e","r","y",".","j","s","o","n">>
N_client == <<"c","l","i","e","n","t","-","i","d","e">>
N_tmp == <<"t","m","p">>

\* the build directory handed to the library
BuildDir == <<N_build>>

(***************************************************************************)
(* std::path and std::ffi helpers used by reply.rs.                        *)
(***************************************************************************)
\* Path::is_absolute (unix): the first component is the root directory
IsAbsolute(p) == Len(p) > 0 /\ p[1] = N_root

\* Path::join: an absolute argument replaces the receiver
PathJoin(base, p) == IF IsAbsolute(p) THEN p ELSE base \o p

\* Path::file_name: the last component
FileName(p) == p[Len(p)]

\* Path::parent
Parent(p) == SubSeq(p, 1, Len(p) - 1)

\* str::starts_with
StartsWith(s, prefix) ==
    /\ Len(s) >= Len(prefix)
    /\ SubSeq(s, 1, Len(prefix)) = prefix

\* positions of "." in a file name
DotPositions(name) == {i \in 1..Len(name) : name[i] = "."}

MaxOf(S) == CHOOSE m \in S : \A x \in S : x <= m

MinOf(S) == CHOOSE m \in S : \A x \in S : m <= x

\* Path::extension: the part of the file name after its last ".", None (<<>>
\* with has = FALSE) when there is no "." or the only "." is the first character
Extension(p) ==
    LET name == FileName(p)
        dots == DotPositions(name) \ {1}
    IN  IF dots = {}
        THEN [has |-> FALSE, ext |-> <<>>]
        ELSE [has |-> TRUE, ext |-> SubSeq(name, MaxOf(dots) + 1, Len(name))]

UpperCase == <<"A","B","C","D","E","F","G","H","I","J","K","L","M",
               "N","O","P","Q","R","S","T","U","V","W","X","Y","Z">>
LowerCase == <<"a","b","c","d","e","f","g","h","i","j","k","l","m",
               "n","o","p","q","r","s","t","u","v","w","x","y","z">>

\* u8::to_ascii_lowercase
AsciiLower(c) ==
    IF \E i \in 1..26 : UpperCase[i] = c
    THEN LowerCase[CHOOSE i \in 1..26 : UpperCase[i] = c]
    ELSE c

\* mutant: the comparison made with the case of the letters
EqIgnoreAsciiCase_Exact(a, b) == a = b

\* OsStr::eq_ignore_ascii_case
EqIgnoreAsciiCase(a, b) ==
    /\ Len(a) = Len(b)
    /\ \A i \in 1..Len(a) : AsciiLower(a[i]) = AsciiLower(b[i])

INDEX_PREFIX == <<"i","n","d","e","x","-">>
JSON_EXT == <<"j","s","o","n">>

(***************************************************************************)
(* Schema registry: objects.rs.                                            *)
(***************************************************************************)
ObjectKind == {"CodeModel", "Toolchains", "Cache", "CMakeFiles", "ConfigureLog"}

\* mutant: the strings of Toolchains and Cache exchanged
as_str_Exchanged(k) ==
    CASE k = "CodeModel" -> "codemodel"
      [] k = "Toolchains" -> "cache"
      [] k = "Cache" -> "toolchains"
      [] k = "CMakeFiles" -> "cmakeFiles"
      [] k = "ConfigureLog" -> "configureLog"

\* ObjectKind::as_str
as_str(k) ==
    CASE k = "CodeModel" -> "codemodel"
      [] k = "Toolchains" -> "toolchains"
      [] k = "Cache" -> "cache"
      [] k = "CMakeFiles" -> "cmakeFiles"
      [] k = "ConfigureLog" -> "configureLog"

\* #[serde(rename = ...)] on the variants of ObjectKind: tag -> variant
KindTags ==
    [codemodel |-> "CodeModel", toolchains |-> "Toolchains", cache |-> "Cache",
     cmakeFiles |-> "CMakeFiles", configureLog |-> "ConfigureLog"]

\* the types implementing the Object trait
ObjectTypes == {"CodeModelV2", "CacheV2", "ToolchainsV1", "CMakeFilesV1", "ConfigureLogV1"}

\* Object::kind
Object_kind(T) ==
    CASE T = "CodeModelV2" -> "CodeModel"
      [] T = "CacheV2" -> "Cache"
      [] T = "ToolchainsV1" -> "Toolchains"
      [] T = "CMakeFilesV1" -> "CMakeFiles"
      [] T = "ConfigureLogV1" -> "ConfigureLog"

\* Object::major
Object_major(T) ==
    CASE T = "CodeModelV2" -> 2
      [] T = "CacheV2" -> 2
      [] T = "ToolchainsV1" -> 1
      [] T = "CMakeFilesV1" -> 1
      [] T = "ConfigureLogV1" -> 1

(***************************************************************************)
(* Decoding (serde_json::from_str::<T>).  A JSON object is a record; a     *)
(* struct without deny_unknown_fields needs its required keys, a struct    *)
(* with it needs exactly its keys.                                         *)
(***************************************************************************)
NoObject == [none |-> TRUE]

ParseErr == [status |-> "Parse", value |-> NoObject]
DecodeOk(v) == [status |-> "Ok", value |-> v]

\* objects::MajorMinor: both fields required, no deny_unknown_fields
MajorMinorOk(v) == {"major", "minor"} \subseteq DOMAIN v

\* #[serde(deny_unknown_fields)]: the keys of a JSON object the struct does not have
UnknownFields(obj, fields) == DOMAIN obj \ fields

\* a decode failure on an unknown field: serde's message names the field
ParseUnknownField(name) ==
    [status |-> "Parse", value |-> NoObject, cause |-> <<"unknown field", name>>]

\* what an error says about its cause, "none" when it names no field
Cause(res) == IF "cause" \in DOMAIN res THEN res.cause ELSE <<"none">>

\* index::ReplyFileReference: deny_unknown_fields, kind is an ObjectKind tag
ReplyFileReferenceOk(e) ==
    /\ DOMAIN e = {"kind", "version", "jsonFile"}
    /\ e.kind \in DOMAIN KindTags
    /\ MajorMinorOk(e.version)

ReplyFileReference(e) ==
    [kind |-> KindTags[e.kind],
     version |-> [major |-> e.version.major, minor |-> e.version.minor],
     json_file |-> e.jsonFile]

\* index::CMakeVersion: deny_unknown_fields, six required fields
CMakeVersionFields == {"major", "minor", "patch", "suffix", "string", "isDirty"}

\* index::CMakePaths: deny_unknown_fields, four required fields
CMakePathsFields == {"cmake", "ctest", "cpack", "root"}

\* index::CMakeGenerator: deny_unknown_fields, platform is an Option
CMakeGeneratorFields == {"multiConfig", "name", "platform"}

\* index::CMake: deny_unknown_fields, three required fields
CMakeFields == {"version", "paths", "generator"}

\* index::Index: deny_unknown_fields, three required fields
IndexFields == {"cmake", "objects", "reply"}

\* the fields of an index document that a struct with deny_unknown_fields refuses
IndexUnknownFields(doc) ==
    UnknownFields(doc, IndexFields)
    \cup (IF "cmake" \in DOMAIN doc
          THEN UnknownFields(doc.cmake, CMakeFields)
               \cup (IF "version" \in DOMAIN doc.cmake
                     THEN UnknownFields(doc.cmake.version, CMakeVersionFields) ELSE {})
               \cup (IF "paths" \in DOMAIN doc.cmake
                     THEN UnknownFields(doc.cmake.paths, CMakePathsFields) ELSE {})
               \cup (IF "generator" \in DOMAIN doc.cmake
                     THEN UnknownFields(doc.cmake.generator, CMakeGeneratorFields) ELSE {})
          ELSE {})
    \cup (IF "objects" \in DOMAIN doc
          THEN UNION {UnknownFields(doc.objects[i], {"kind", "version", "jsonFile"}) :
                         i \in 1..Len(doc.objects)}
          ELSE {})

\* the required fields of the fixed-shape part of an index document are there
IndexRequiredOk(doc) ==
    /\ IndexFields \subseteq DOMAIN doc
    /\ CMakeFields \subseteq DOMAIN doc.cmake
    /\ CMakeVersionFields \subseteq DOMAIN doc.cmake.version
    /\ CMakePathsFields \subseteq DOMAIN doc.cmake.paths
    /\ {"multiConfig", "name"} \subseteq DOMAIN doc.cmake.generator
    /\ \A i \in 1..Len(doc.objects) : ReplyFileReferenceOk(doc.objects[i])

(***************************************************************************)
(* The free-form region of the index: `reply`.  Its values are decoded     *)
(* from a buffered serde_json::Value, modelled as a tagged value, by the   *)
(* untagged enums ReplyField and ClientField.  A derived struct decodes    *)
(* from a JSON object by its keys or from a JSON array by position.        *)
(***************************************************************************)
JNull == [t |-> "null"]
JStr(s) == [t |-> "str", str |-> s]
JNum(n) == [t |-> "num", num |-> n]
JArr(a) == [t |-> "arr", arr |-> a]
JObj(m) == [t |-> "obj", obj |-> m]

\* an object without keys
EmptyMap == [k \in {} |-> JNull]

\* serde's error when no variant of an untagged enum fits
ParseNoVariant(enum) ==
    [status |-> "Parse", value |-> NoObject, cause |-> <<"no variant", enum>>]

\* the fields of a struct as the visitor gets them: by key from an object, by
\* position from an array of exactly as many elements, none from another value
StructFields(v, names) ==
    IF v.t = "obj"
    THEN [some |-> TRUE, fields |-> v.obj]
    ELSE IF v.t = "arr" /\ Len(v.arr) = Len(names)
         THEN [some |-> TRUE, fields |-> [k \in {names[i] : i \in 1..Len(names)} |->
                                            v.arr[CHOOSE i \in 1..Len(names) : names[i] = k]]]
         ELSE [some |-> FALSE]

\* index::Error: deny_unknown_fields, `error` a string
DecodeError(v) ==
    LET s == StructFields(v, <<"error">>)
    IN  IF /\ s.some
           /\ DOMAIN s.fields = {"error"}
           /\ s.fields.error.t = "str"
        THEN DecodeOk([variant |-> "Error", error |-> s.fields.error.str])
        ELSE ParseErr

\* objects::MajorMinor out of a buffered value: unknown keys are ignored
MajorMinorValueOk(v) ==
    LET s == StructFields(v, <<"major", "minor">>)
    IN  /\ s.some
        /\ {"major", "minor"} \subseteq DOMAIN s.fields
        /\ s.fields.major.t = "num"
        /\ s.fields.minor.t = "num"

\* index::ReplyFileReference out of a buffered value
DecodeReference(v) ==
    LET s == StructFields(v, <<"kind", "version", "jsonFile">>)
    IN  IF /\ s.some
           /\ DOMAIN s.fields = {"kind", "version", "jsonFile"}
           /\ s.fields.kind.t = "str"
           /\ s.fields.kind.str \in DOMAIN KindTags
           /\ MajorMinorValueOk(s.fields.version)
           /\ s.fields.jsonFile.t = "str"
        THEN LET version == StructFields(s.fields.version, <<"major", "minor">>).fields
             IN  DecodeOk([variant |-> "ReplyFileReference",
                           kind |-> KindTags[s.fields.kind.str],
                           version |-> [major |-> version.major.num, minor |-> version.minor.num],
                           json_file |-> s.fields.jsonFile.str])
        ELSE ParseErr

\* Option<serde_json::Value>: a missing key and null are None
OptionValue(fields, key) ==
    IF key \in DOMAIN fields /\ fields[key] # JNull
    THEN [some |-> TRUE, value |-> fields[key]]
    ELSE [some |-> FALSE]

\* index::QueryJson: deny_unknown_fields, three optional values of any shape
\* (by position all three elements are needed)
DecodeQueryJson(v) ==
    LET s == StructFields(v, <<"client", "requests", "responses">>)
    IN  IF s.some /\ DOMAIN s.fields \subseteq {"client", "requests", "responses"}
        THEN DecodeOk([variant |-> "QueryJson",
                       client |-> OptionValue(s.fields, "client"),
                       requests |-> OptionValue(s.fields, "requests"),
                       responses |-> OptionValue(s.fields, "responses")])
        ELSE ParseErr

\* the first result that is Ok, the error of the enum when none is
FirstOk(attempts, enum) ==
    IF \E i \in 1..Len(attempts) : attempts[i].status = "Ok"
    THEN attempts[MinOf({i \in 1..Len(attempts) : attempts[i].status = "Ok"})]
    ELSE ParseNoVariant(enum)

\* mutant: the query.json record tried before the catalog entry
DecodeClientField_QueryJsonFirst(v) ==
    FirstOk(<<DecodeError(v), DecodeQueryJson(v), DecodeReference(v)>>, "ClientField")

\* index::ClientField, #[serde(untagged)]: Error, ReplyFileReference, QueryJson
DecodeClientField(v) ==
    FirstOk(<<DecodeError(v), DecodeReference(v), DecodeQueryJson(v)>>, "ClientField")

\* HashMap<String, ClientField>: an object all of whose values are ClientFields
DecodeClient(v) ==
    IF v.t = "obj" /\ \A k \in DOMAIN v.obj : DecodeClientField(v.obj[k]).status = "Ok"
    THEN DecodeOk([variant |-> "Client",
                   fields |-> [k \in DOMAIN v.obj |-> DecodeClientField(v.obj[k]).value]])
    ELSE ParseErr

\* the unit variant ReplyField::Unknown: from null only
DecodeUnknown(v) ==
    IF v.t = "null" THEN DecodeOk([variant |-> "Unknown"]) ELSE ParseErr

\* index::ReplyField, #[serde(untagged)]: Error, ReplyFileReference, Client, Unknown
DecodeReplyField(v) ==
    FirstOk(<<DecodeError(v), DecodeReference(v), DecodeClient(v), DecodeUnknown(v)>>,
            "ReplyField")

\* HashMap<String, ReplyField>
ReplyOk(reply) == \A label \in DOMAIN reply : DecodeReplyField(reply[label]).status = "Ok"

\* index::Index
DecodeIndex(doc) ==
    IF IndexUnknownFields(doc) # {}
    THEN ParseUnknownField(CHOOSE name \in IndexUnknownFields(doc) : TRUE)
    ELSE IF IndexRequiredOk(doc) /\ ReplyOk(doc.reply)
         THEN DecodeOk([cmake |-> doc.cmake,
                        objects |-> [i \in 1..Len(doc.objects) |->
                                        ReplyFileReference(doc.objects[i])],
                        reply |-> [label \in DOMAIN doc.reply |->
                                      DecodeReplyField(doc.reply[label]).value]])
         ELSE ParseErr

\* codemodel::TargetReference
TargetReference(r) == [name |-> r.name, id |-> r.id, json_file |-> r.jsonFile]

\* codemodel::DirectoryReference
DirectoryReference(r) == [source |-> r.source, json_file |-> r.jsonFile]

\* codemodel::Configuration: "targets" and "directories" of the document are the
\* reference arrays; the resolved lists are #[serde(skip)] and start empty
Configuration(c) ==
    [name |-> c.name,
     target_refs |-> [j \in 1..Len(c.targets) |-> TargetReference(c.targets[j])],
     directory_refs |-> [j \in 1..Len(c.directories) |->
                            DirectoryReference(c.directories[j])],
     targets |-> <<>>,
     directories |-> <<>>]

\* the fields `kind` and `version` every top-level object carries
KindVersionOk(doc) ==
    /\ {"kind", "version"} \subseteq DOMAIN doc
    /\ doc.kind \in DOMAIN KindTags
    /\ MajorMinorOk(doc.version)

\* codemodel::CodeModel
DecodeCodeModel(doc) ==
    IF KindVersionOk(doc) /\ {"paths", "configurations"} \subseteq DOMAIN doc
    THEN DecodeOk([kind |-> KindTags[doc.kind],
                   version |-> [major |-> doc.version.major, minor |-> doc.version.minor],
                   configurations |-> [i \in 1..Len(doc.configurations) |->
                                          Configuration(doc.configurations[i])]])
    ELSE ParseErr

\* mutant: the object structs with deny_unknown_fields, as those of the index
DecodePlain_DenyUnknown(doc, required) ==
    IF KindVersionOk(doc) /\ DOMAIN doc = {"kind", "version"} \cup required
    THEN DecodeOk([kind |-> KindTags[doc.kind],
                   version |-> [major |-> doc.version.major, minor |-> doc.version.minor]])
    ELSE ParseErr

\* the four object kinds without references: Cache, Toolchains, CMakeFiles, ConfigureLog
DecodePlain(doc, required) ==
    IF KindVersionOk(doc) /\ required \subseteq DOMAIN doc
    THEN DecodeOk([kind |-> KindTags[doc.kind],
                   version |-> [major |-> doc.version.major, minor |-> doc.version.minor]])
    ELSE ParseErr

\* codemodel_v2::Target
DecodeTarget(doc) ==
    IF {"name", "id", "type", "paths", "backtraceGraph"} \subseteq DOMAIN doc
    THEN DecodeOk([name |-> doc.name, id |-> doc.id, type_name |-> doc.type])
    ELSE ParseErr

\* codemodel_v2::Directory
DecodeDirectory(doc) ==
    IF {"paths", "backtraceGraph", "installers"} \subseteq DOMAIN doc
    THEN DecodeOk([paths |-> doc.paths, installers |-> doc.installers])
    ELSE ParseErr

\* what can be deserialized: the Object types, the index and the two satellites
from_str(T, doc) ==
    CASE T = "Index" -> DecodeIndex(doc)
      [] T = "CodeModelV2" -> DecodeCodeModel(doc)
      [] T = "CacheV2" -> DecodePlain(doc, {"entries"})
      [] T = "ToolchainsV1" -> DecodePlain(doc, {"toolchains"})
      [] T = "CMakeFilesV1" -> DecodePlain(doc, {"paths", "inputs"})
      [] T = "ConfigureLogV1" -> DecodePlain(doc, {"path", "eventKindNames"})
      [] T = "Target" -> DecodeTarget(doc)
      [] T = "Directory" -> DecodeDirectory(doc)

(***************************************************************************)
(* The file system.  A node is absent, a directory, a regular file that    *)
(* cannot be read as text (no permission, not UTF-8), a text file that is  *)
(* not JSON, or a text file holding a JSON object.                         *)
(***************************************************************************)
Absent == [shape |-> "absent"]
Dir == [shape |-> "dir"]
\* a path that exists but cannot be enumerated as a directory
NoDir == [shape |-> "nodir"]
Unreadable == [shape |-> "unreadable"]
Garbage == [shape |-> "garbage"]
Json(doc) == [shape |-> "json", json |-> doc]
\* a regular file without content
Empty == [shape |-> "empty"]

\* Path::exists
Exists(f, p) == p \in DOMAIN f /\ f[p].shape # "absent"

\* Path::is_file
IsFile(f, p) ==
    p \in DOMAIN f /\ f[p].shape \in {"unreadable", "garbage", "json", "empty"}

\* the node at a path; paths outside the modelled universe do not exist
NodeAt(f, p) == IF p \in DOMAIN f THEN f[p] ELSE Absent

\* the entries fs::read_dir yields for a directory
DirEntries(f, d) ==
    {p \in DOMAIN f : Len(p) = Len(d) + 1 /\ Parent(p) = d /\ f[p].shape # "absent"}

\* fs::read_dir succeeds on a directory only
ReadDirOk(f, d) == d \in DOMAIN f /\ f[d].shape = "dir"

(***************************************************************************)
(* reply.rs: locating the index.                                           *)
(***************************************************************************)
None == [some |-> FALSE, path |-> <<>>]
Some(p) == [some |-> TRUE, path |-> p]

\* reply::dir
dir(build_dir) ==
    PathJoin(PathJoin(PathJoin(PathJoin(build_dir, <<N_dotcmake>>), <<N_api>>), <<N_v1>>),
             <<N_reply>>)

\* mutant: the closure without its is_file test
IsIndexCandidate_NoFileCheck(f, path) ==
    /\ StartsWith(FileName(path), INDEX_PREFIX)
    /\ Extension(path).has
    /\ EqIgnoreAsciiCase(Extension(path).ext, JSON_EXT)

\* the closure of index_file's find_map: a regular file whose name starts with
\* "index-" and whose extension is "json" in any ASCII case
IsIndexCandidate(f, path) ==
    /\ IsFile(f, path)
    /\ StartsWith(FileName(path), INDEX_PREFIX)
    /\ Extension(path).has
    /\ EqIgnoreAsciiCase(Extension(path).ext, JSON_EXT)

\* Iterator::find_map over fs::read_dir: the entries come in an order the
\* platform chooses and the first accepted one is returned, so over all
\* orders the result is any accepted entry, and None when there is none
FindMapOutcomes(f, entries) ==
    LET accepted == {path \in entries : IsIndexCandidate(f, path)}
    IN  IF accepted = {} THEN {None} ELSE {Some(path) : path \in accepted}

\* reply::index_file: the set of results the call can give on file system f
index_file(f, build_dir) ==
    LET reply_dir == dir(build_dir)
    IN  IF ~Exists(f, reply_dir)
        THEN {None}
        ELSE IF ~ReadDirOk(f, reply_dir)
             THEN {None}
             ELSE FindMapOutcomes(f, DirEntries(f, reply_dir))

\* mutant: availability decided by the existence of the reply directory
is_available_DirOnly(f, build_dir) == {Exists(f, dir(build_dir))}

\* reply::is_available: index_file(build_dir).is_some(), for each result of index_file
is_available(f, build_dir) == {r.some : r \in index_file(f, build_dir)}

(***************************************************************************)
(* reply.rs: the Reader.                                                   *)
(***************************************************************************)
IOErr == [status |-> "IO", value |-> NoObject]

\* Reader::parse_reply: fs::read_to_string, then serde_json::from_str
parse_reply(f, T, reply_file) ==
    LET node == NodeAt(f, reply_file)
    IN  IF node.shape \in {"absent", "dir", "nodir", "unreadable"}
        THEN IOErr
        ELSE IF node.shape \in {"garbage", "empty"}
             THEN ParseErr
             ELSE from_str(T, node.json)

NoRef == [some |-> FALSE]
SomeRef(r) == [some |-> TRUE, ref |-> r]

\* mutant: the major version not compared
find_object_KindOnly(index, k, m) ==
    LET hits == {i \in 1..Len(index.objects) : index.objects[i].kind = k}
    IN  IF hits = {} THEN NoRef ELSE SomeRef(index.objects[MinOf(hits)])

\* mutant: the last matching entry instead of the first
find_object_Last(index, k, m) ==
    LET hits == {i \in 1..Len(index.objects) :
                    /\ index.objects[i].kind = k
                    /\ index.objects[i].version.major = m}
    IN  IF hits = {} THEN NoRef ELSE SomeRef(index.objects[MaxOf(hits)])

\* Reader::find_object: the first entry of the catalog with the kind and the major
find_object(index, k, m) ==
    LET hits == {i \in 1..Len(index.objects) :
                    /\ index.objects[i].kind = k
                    /\ index.objects[i].version.major = m}
    IN  IF hits = {} THEN NoRef ELSE SomeRef(index.objects[MinOf(hits)])

NoReader == [ready |-> FALSE, build_dir |-> <<>>,
             index |-> [cmake |-> [none |-> TRUE], objects |-> <<>>, reply |-> [none |-> TRUE]]]

\* mutant: the directory references of a configuration resolved before its
\* target references
ConfigOrder_DirectoriesFirst(c, ci) ==
    [j \in 1..Len(c.directory_refs) |->
        [ci |-> ci, list |-> "directories", T |-> "Directory",
         json_file |-> c.directory_refs[j].json_file]]
    \o
    [j \in 1..Len(c.target_refs) |->
        [ci |-> ci, list |-> "targets", T |-> "Target", json_file |-> c.target_refs[j].json_file]]

\* the satellite reads of CodeModel::resolve_references in loop order: for each
\* configuration, its target references, then its directory references
ConfigOrder(c, ci) ==
    [j \in 1..Len(c.target_refs) |->
        [ci |-> ci, list |-> "targets", T |-> "Target", json_file |-> c.target_refs[j].json_file]]
    \o
    [j \in 1..Len(c.directory_refs) |->
        [ci |-> ci, list |-> "directories", T |-> "Directory",
         json_file |-> c.directory_refs[j].json_file]]

RECURSIVE ResolveOrderFrom(_, _)
ResolveOrderFrom(configurations, ci) ==
    IF ci > Len(configurations)
    THEN <<>>
    ELSE ConfigOrder(configurations[ci], ci) \o ResolveOrderFrom(configurations, ci + 1)

\* Object::resolve_references is overridden by CodeModel only
ResolveOrder(T, object) ==
    IF T = "CodeModelV2" THEN ResolveOrderFrom(object.configurations, 1) ELSE <<>>

\* mutant: the parsed satellite inserted at the front of its list
Push_Front(object, item, value) ==
    [object EXCEPT !.configurations[item.ci] =
        IF item.list = "targets"
        THEN [@ EXCEPT !.targets = <<value>> \o @]
        ELSE [@ EXCEPT !.directories = <<value>> \o @]]

\* Vec::push of a parsed satellite on the list the loop is filling
Push(object, item, value) ==
    [object EXCEPT !.configurations[item.ci] =
        IF item.list = "targets"
        THEN [@ EXCEPT !.targets = Append(@, value)]
        ELSE [@ EXCEPT !.directories = Append(@, value)]]

NoResult == [status |-> "none", value |-> NoObject]

Idle == [op |-> "idle", T |-> "none", pc |-> "idle", object |-> NoObject,
         k |-> 0, reads |-> <<>>, ret |-> NoResult,
         before |-> NoObject, resolves |-> 0]

(***************************************************************************)
(* The documents a generated reply holds.                                  *)
(***************************************************************************)
\* the reply directory of BuildDir, spelled out
ReplyPath == <<N_build, N_dotcmake, N_api, N_v1, N_reply>>

In(name) == ReplyPath \o <<name>>

CMakeInfo ==
    [version |-> [major |-> 3, minor |-> 27, patch |-> 7, suffix |-> "", string |-> "3.27.7",
                  isDirty |-> FALSE],
     paths |-> [cmake |-> "/usr/bin/cmake", ctest |-> "/usr/bin/ctest",
                cpack |-> "/usr/bin/cpack", root |-> "/usr/share/cmake-3.27"],
     generator |-> [multiConfig |-> FALSE, name |-> "Ninja"]]

E_cm == [kind |-> "codemodel", version |-> [major |-> 2, minor |-> 7], jsonFile |-> <<N_cm>>]
E_cm_sub ==
    [kind |-> "codemodel", version |-> [major |-> 2, minor |-> 0], jsonFile |-> <<N_sub, N_cm>>]
E_cm_v1 == [kind |-> "codemodel", version |-> [major |-> 1, minor |-> 7], jsonFile |-> <<N_cm>>]
E_cache == [kind |-> "cache", version |-> [major |-> 2, minor |-> 0], jsonFile |-> <<N_cache>>]

E_tc == [kind |-> "toolchains", version |-> [major |-> 1, minor |-> 0], jsonFile |-> <<N_tc>>]
E_cf == [kind |-> "cmakeFiles", version |-> [major |-> 1, minor |-> 0], jsonFile |-> <<N_cf>>]
E_cl == [kind |-> "configureLog", version |-> [major |-> 1, minor |-> 0], jsonFile |-> <<N_cl>>]

EntryUniverse == {E_cm, E_cm_sub, E_cm_v1, E_cache}

\* the catalog of a reply to a query for all five objects
FullCatalog == <<E_cm, E_cache, E_tc, E_cf, E_cl>>

\* the `objects` arrays an index document may carry: distinct entries, any order
Catalogs ==
    {c \in UNION {[1..n -> EntryUniverse] : n \in 0..MaxCatalog} :
        \A i, j \in 1..Len(c) : c[i] = c[j] => i = j}

IndexDoc(catalog) ==
    [cmake |-> CMakeInfo, objects |-> catalog, reply |-> EmptyMap]

TargetDoc(n) ==
    [name |-> n, id |-> n, type |-> "EXECUTABLE", paths |-> [source |-> ".", build |-> "."],
     backtraceGraph |-> [nodes |-> "none"]]

DirectoryDoc(d) ==
    [paths |-> [source |-> d, build |-> d], backtraceGraph |-> [nodes |-> "none"],
     installers |-> "none"]

TRef(n, file) ==
    [name |-> n, id |-> n, directoryIndex |-> 0, projectIndex |-> 0, jsonFile |-> file]

DRef(d, file) == [source |-> d, build |-> d, projectIndex |-> 0, jsonFile |-> file]

ConfigDoc(n, trefs, drefs) ==
    [name |-> n, projects |-> "none", targets |-> trefs, directories |-> drefs]

CodeModelDoc(configs) ==
    [kind |-> "codemodel", version |-> [major |-> 2, minor |-> 7],
     paths |-> [source |-> "/src", build |-> "/build"], configurations |-> configs]

\* two configurations; the second names a satellite by an absolute path
CM_main ==
    CodeModelDoc(<<
        ConfigDoc("Debug",
                  <<TRef("app", <<N_t0>>), TRef("foo", <<N_t1>>)>>,
                  <<DRef(".", <<N_d0>>), DRef("libfoo", <<N_d1>>)>>),
        ConfigDoc("Release",
                  <<TRef("foo", <<N_t1>>)>>,
                  <<DRef("ext", <<N_root, N_d9>>)>>)>>)

\* a codemodel stored in a sub-directory of the reply directory
CM_sub == CodeModelDoc(<<ConfigDoc("Debug", <<TRef("app", <<N_t0>>)>>, <<>>)>>)

CacheDoc == [kind |-> "cache", version |-> [major |-> 2, minor |-> 0], entries |-> "none"]

ToolchainsDoc ==
    [kind |-> "toolchains", version |-> [major |-> 1, minor |-> 0], toolchains |-> "none"]

CMakeFilesDoc ==
    [kind |-> "cmakeFiles", version |-> [major |-> 1, minor |-> 0],
     paths |-> [source |-> "/src", build |-> "/build"], inputs |-> "none"]

ConfigureLogDoc ==
    [kind |-> "configureLog", version |-> [major |-> 1, minor |-> 0],
     path |-> "/build/CMakeFiles/CMakeConfigureLog.yaml", eventKindNames |-> "none"]

\* a JSON object of no schema of the protocol
OtherDoc == [foo |-> "bar"]

FsPaths ==
    {ReplyPath}
    \cup {In(n) : n \in {N_index_a, N_index_b, N_index_d, N_index, N_Index_x, N_index_bak,
                         N_cm, N_sub, N_cache, N_t0, N_t1, N_d0, N_d1, N_tc, N_cf, N_cl}}
    \cup {ReplyPath \o <<N_sub, N_cm>>, ReplyPath \o <<N_sub, N_t0>>}
    \cup {<<N_build, N_cm>>, <<N_build, N_t0>>, <<N_root, N_d9>>}

\* the object files of a reply; files of the same names beside them (in the
\* build root, in the sub-directory) hold other content
ObjectFiles ==
    (In(N_cm) :> Json(CM_main)) @@ (In(N_sub) :> Dir)
    @@ (ReplyPath \o <<N_sub, N_cm>> :> Json(CM_sub))
    @@ (ReplyPath \o <<N_sub, N_t0>> :> Json(TargetDoc("sub-app")))
    @@ (In(N_cache) :> Json(CacheDoc))
    @@ (In(N_tc) :> Json(ToolchainsDoc)) @@ (In(N_cf) :> Json(CMakeFilesDoc))
    @@ (In(N_cl) :> Json(ConfigureLogDoc))
    @@ (In(N_t0) :> Json(TargetDoc("app"))) @@ (In(N_t1) :> Json(TargetDoc("foo")))
    @@ (In(N_d0) :> Json(DirectoryDoc("."))) @@ (In(N_d1) :> Json(DirectoryDoc("libfoo")))
    @@ (<<N_root, N_d9>> :> Json(DirectoryDoc("ext")))
    @@ (<<N_build, N_cm>> :> Json(CM_sub))
    @@ (<<N_build, N_t0>> :> Json(TargetDoc("root-app")))

\* a file system: the reply directory node, the index-like entries, the rest
MkFs(replyNode, indexLike) ==
    [p \in FsPaths |->
        IF p = ReplyPath THEN replyNode
        ELSE IF p \in DOMAIN indexLike
             THEN (IF replyNode = Dir THEN indexLike[p] ELSE Absent)
             ELSE IF replyNode # Dir /\ StartsWith(p, ReplyPath)
                  THEN Absent
                  ELSE ObjectFiles[p]]

NoIndexLike ==
    [p \in {In(n) : n \in {N_index_a, N_index_b, N_index_d, N_index, N_Index_x, N_index_bak}}
        |-> Absent]

\* replies whose reply directory holds any mix of index-like entries
LocateFileSystems ==
    {MkFs(Absent, NoIndexLike), MkFs(NoDir, NoIndexLike)}
    \cup
    {MkFs(Dir, (In(N_index_a) :> a) @@ (In(N_index_b) :> b) @@ (In(N_index_d) :> d)
               @@ (In(N_index) :> i) @@ (In(N_Index_x) :> x) @@ (In(N_index_bak) :> k)) :
        a \in {Absent, Garbage, Unreadable, Json(OtherDoc), Json(IndexDoc(<<E_cm, E_cache>>))},
        b \in {Absent, Garbage, Json(IndexDoc(<<E_cache>>))},
        d \in {Absent, Dir},
        i \in {Absent, Json(IndexDoc(<<E_cm_sub>>))},
        x \in {Absent, Json(IndexDoc(<<E_cm_sub>>))},
        k \in {Absent, Json(IndexDoc(<<E_cm_sub>>))}}

Faultable ==
    {In(N_cm), ReplyPath \o <<N_sub, N_cm>>, In(N_cache), In(N_t0), In(N_t1), In(N_d1),
     <<N_root, N_d9>>}

FaultNode(kind) ==
    CASE kind = "absent" -> Absent
      [] kind = "garbage" -> Garbage
      [] kind = "other" -> Json(OtherDoc)

\* at most MaxFaults damaged object files
FaultSets ==
    UNION {[F -> {"absent", "garbage", "other"}] :
              F \in {G \in SUBSET Faultable : Cardinality(G) <= MaxFaults}}

\* replies with one index, any catalog, and some damaged object files
ReaderFileSystems ==
    {[p \in FsPaths |->
        IF p \in DOMAIN faults
        THEN FaultNode(faults[p])
        ELSE MkFs(Dir, (In(N_index_a) :> Json(IndexDoc(catalog))) @@ NoIndexLike)[p]] :
        catalog \in Catalogs, faults \in FaultSets}

(***************************************************************************)
(* Index documents that differ from a generated one: one field the schema  *)
(* does not have, somewhere in the fixed-shape part, or a `reply` mapping  *)
(* with one value of some shape.                                           *)
(***************************************************************************)
WithField(obj, name, value) == (name :> value) @@ obj

\* the objects of the fixed-shape part of an index document
ExtraPlaces == {"index", "cmake", "version", "paths", "generator", "entry", "entry.version"}

\* the document with the field "test" added to the object at `place`
WithUnknownField(doc, place) ==
    CASE place = "index" -> WithField(doc, "test", "test")
      [] place = "cmake" -> [doc EXCEPT !.cmake = WithField(@, "test", "test")]
      [] place = "version" -> [doc EXCEPT !.cmake.version = WithField(@, "test", "test")]
      [] place = "paths" -> [doc EXCEPT !.cmake.paths = WithField(@, "test", "test")]
      [] place = "generator" -> [doc EXCEPT !.cmake.generator = WithField(@, "test", "test")]
      [] place = "entry" -> [doc EXCEPT !.objects[1] = WithField(@, "test", "test")]
      [] place = "entry.version" ->
            [doc EXCEPT !.objects[1].version = WithField(@, "test", "test")]

V_error == JObj([error |-> JStr("unknown query file")])

V_version == JObj([major |-> JNum(2), minor |-> JNum(6)])

V_ref == JObj([kind |-> JStr("codemodel"), version |-> V_version, jsonFile |-> JStr("test.json")])

\* a catalog entry whose version carries a further key
V_ref_patch ==
    JObj([kind |-> JStr("codemodel"),
          version |-> JObj([major |-> JNum(2), minor |-> JNum(6), patch |-> JNum(1)]),
          jsonFile |-> JStr("test.json")])

\* a catalog entry of a kind the library does not know
V_ref_kind == JObj([kind |-> JStr("future"), version |-> V_version, jsonFile |-> JStr("f.json")])

\* the client data payloads of a query.json record
Payloads ==
    {JNull, JNum(10), JStr("data"), JArr(<<JNum(1), JStr("two")>>), JObj(EmptyMap),
     JObj([myData |-> JNum(10)]), V_error, V_ref}

V_query(payload) ==
    JObj([requests |-> JArr(<<JObj(EmptyMap), JObj(EmptyMap)>>),
          responses |-> JArr(<<V_ref, V_error>>),
          client |-> payload])

V_client(query) ==
    JObj([entry |-> V_ref, unknown |-> V_error, queryjson |-> query])

\* objects of no shape of the protocol
V_other == JObj([foo |-> JStr("bar")])
V_nested == JObj([foo |-> JObj([bar |-> JNum(1)])])
V_error_extra == JObj([error |-> JStr("e"), test |-> JStr("test")])
V_error_num == JObj([error |-> JNum(5)])

\* the records written as arrays, field by field
V_error_seq == JArr(<<JStr("e")>>)
V_ref_seq == JArr(<<JStr("codemodel"), V_version, JStr("test.json")>>)

ReplyValues ==
    {V_error, V_ref, V_ref_patch, V_ref_kind, JObj(EmptyMap), JNull,
     V_other, V_nested, V_error_extra, V_error_num, V_error_seq, V_ref_seq,
     JObj([error |-> V_error]), JObj([entry |-> V_ref_seq]),
     JObj([queryjson |-> JObj([client |-> V_other, extra |-> JNum(1)])])}
    \cup {V_client(V_query(payload)) : payload \in Payloads}

DriftIndexDocs ==
    {WithUnknownField(IndexDoc(<<E_cache>>), place) : place \in ExtraPlaces}
    \cup {[IndexDoc(<<>>) EXCEPT !.reply = [label |-> value]] : value \in ReplyValues}
    \cup {[IndexDoc(<<>>) EXCEPT !.reply = [first |-> V_ref, second |-> V_error,
                                            third |-> V_client(V_query(V_other))]]}

\* replies with one index file holding such a document
IndexFileSystems ==
    {MkFs(Dir, (In(N_index_a) :> Json(doc)) @@ NoIndexLike) : doc \in DriftIndexDocs}

(***************************************************************************)
(* Replies of a newer generator: one object file or satellite file carries *)
(* a field the schema of the library does not have.                        *)
(***************************************************************************)
DriftObjectFiles ==
    {In(N_cm), In(N_cache), In(N_tc), In(N_cf), In(N_cl),
     In(N_t0), In(N_t1), In(N_d0), In(N_d1), <<N_root, N_d9>>}

\* the reply to a query for all five objects, as generated
FullReply == MkFs(Dir, (In(N_index_a) :> Json(IndexDoc(FullCatalog))) @@ NoIndexLike)

ObjectDriftFileSystems ==
    {FullReply}
    \cup {[FullReply EXCEPT ![q] = Json(WithField(@.json, "test", "test"))] :
             q \in DriftObjectFiles}
    \cup {[FullReply EXCEPT ![In(N_cm)] =
              Json([@.json EXCEPT !.configurations[1] = WithField(@, "test", "test")])]}

(***************************************************************************)
(* Replies in which an object file declares another kind or another major  *)
(* version than the catalog entry that names it.                           *)
(***************************************************************************)
MismatchFileSystems ==
    {[FullReply EXCEPT ![In(N_cm)] = Json([@.json EXCEPT !.kind = "cache"])],
     [FullReply EXCEPT ![In(N_cm)] = Json([@.json EXCEPT !.version.major = 3])],
     [FullReply EXCEPT ![In(N_cache)] = Json([@.json EXCEPT !.kind = "toolchains",
                                                            !.version.major = 1])],
     [FullReply EXCEPT ![In(N_cache)] = Json(ToolchainsDoc)]}

(***************************************************************************)
(* query.rs: the Writer.                                                   *)
(***************************************************************************)
NoValue == [some |-> FALSE]
SomeValue(v) == [some |-> TRUE, value |-> v]

\* results of the three accessors, none called yet
NoOut == [compile_fragments |-> NoValue, flags |-> NoValue, defines |-> NoValue]

\* CompileGroup::default()
NoGroup == [group |-> [defines |-> <<>>, compile_command_fragments |-> <<>>],
            out |-> NoOut]

\* Writer::default()
DefaultWriter == [query |-> [requests |-> <<>>, client |-> NoValue], client_name |-> None]

\* query::Request with its OptionalVersion
Request(T, minor) ==
    [kind |-> Object_kind(T), version |-> [major |-> Object_major(T), minor |-> minor]]

\* Writer::request_object::<T>
request_object(w, T) ==
    [w EXCEPT !.query.requests = Append(@, Request(T, NoValue))]

\* Writer::add_request_exact::<T>(minor)
add_request_exact(w, T, minor) ==
    [w EXCEPT !.query.requests = Append(@, Request(T, SomeValue(minor)))]

\* Writer::request_all_objects
request_all_objects(w) ==
    request_object(request_object(request_object(request_object(request_object(
        w, "CodeModelV2"), "ConfigureLogV1"), "CacheV2"), "ToolchainsV1"), "CMakeFilesV1")

\* Writer::set_client
set_client(w, client_name, client_data) ==
    [w EXCEPT !.query.client = SomeValue(client_data), !.client_name = Some(client_name)]

\* query::dir
query_dir(build_dir) ==
    PathJoin(PathJoin(PathJoin(PathJoin(build_dir, <<N_dotcmake>>), <<N_api>>), <<N_v1>>),
             <<N_query>>)

\* the characters of the strings ObjectKind::as_str returns
TagChars ==
    [codemodel |-> <<"c","o","d","e","m","o","d","e","l">>,
     toolchains |-> <<"t","o","o","l","c","h","a","i","n","s">>,
     cache |-> <<"c","a","c","h","e">>,
     cmakeFiles |-> <<"c","m","a","k","e","F","i","l","e","s">>,
     configureLog |-> <<"c","o","n","f","i","g","u","r","e","L","o","g">>]

Digits == <<"0","1","2","3","4","5","6","7","8","9">>

\* Display for u32
RECURSIVE Decimal(_)
Decimal(n) == IF n < 10 THEN <<Digits[n + 1]>> ELSE Decimal(n \div 10) \o <<Digits[(n % 10) + 1]>>

\* mutant: the minor version, when given, made part of the file name
stateless_name_WithMinor(obj) ==
    TagChars[as_str(obj.kind)] \o <<"-", "v">> \o Decimal(obj.version.major)
    \o (IF obj.version.minor.some THEN <<".">> \o Decimal(obj.version.minor.value) ELSE <<>>)

\* format!("{}-v{}", obj.kind.as_str(), obj.version.major)
stateless_name(obj) ==
    TagChars[as_str(obj.kind)] \o <<"-", "v">> \o Decimal(obj.version.major)

\* the ancestors of a path, itself included, that the model has
Ancestors(f, p) == {SubSeq(p, 1, n) : n \in 1..Len(p)} \cap DOMAIN f

\* fs::create_dir_all: fails when the path or an ancestor is no directory
CreateDirAllOk(f, p) == \A q \in Ancestors(f, p) : f[q].shape \in {"absent", "dir"}

CreateDirAll(f, p) == [q \in DOMAIN f |-> IF q \in Ancestors(f, p) THEN Dir ELSE f[q]]

\* fs::write succeeds on a path that is no directory, in a directory
WriteOk(f, p) ==
    /\ p \in DOMAIN f
    /\ f[p].shape \notin {"dir", "nodir"}
    /\ Parent(p) \in DOMAIN f => f[Parent(p)].shape = "dir"

\* mutant: a file that exists is left as it is
WriteEmpty_KeepExisting(f, p) ==
    IF f[p].shape = "absent" THEN [f EXCEPT ![p] = Empty] ELSE f

\* fs::write(p, ""): the file is created, or truncated, without content
WriteEmpty(f, p) == [f EXCEPT ![p] = Empty]

\* the loop of write_stateless from request i on: fs::write(&query_file, "")?
RECURSIVE WriteFiles(_, _, _, _)
WriteFiles(f, d, requests, i) ==
    IF i > Len(requests)
    THEN [status |-> "Ok", fs |-> f]
    ELSE LET query_file == PathJoin(d, <<stateless_name(requests[i])>>)
         IN  IF ~WriteOk(f, query_file)
             THEN [status |-> "IO", fs |-> f]
             ELSE WriteFiles(WriteEmpty(f, query_file), d, requests, i + 1)

\* Writer::write_stateless
write_stateless(w, f, build_dir) ==
    IF ~CreateDirAllOk(f, query_dir(build_dir))
    THEN [status |-> "IO", fs |-> f]
    ELSE WriteFiles(CreateDirAll(f, query_dir(build_dir)), query_dir(build_dir),
                    w.query.requests, 1)

\* #[serde(rename = ...)] on the variants of ObjectKind: variant -> tag
RenameTag(k) == CHOOSE tag \in DOMAIN KindTags : KindTags[tag] = k

\* Serialize for OptionalVersion: minor is skipped when it is None
SerializeVersion(version) ==
    IF version.minor.some
    THEN JObj([major |-> JNum(version.major), minor |-> JNum(version.minor.value)])
    ELSE JObj([major |-> JNum(version.major)])

\* Serialize for Request
SerializeRequest(r) ==
    JObj([kind |-> JStr(RenameTag(r.kind)), version |-> SerializeVersion(r.version)])

\* mutant: a request of a kind and version already requested is written once
SerializeQuery_Deduplicated(query) ==
    LET keep == {i \in 1..Len(query.requests) :
                    \A j \in 1..(i - 1) : query.requests[j] # query.requests[i]}
        nth(n) == CHOOSE i \in keep : Cardinality({j \in keep : j < i}) = n - 1
    IN  JObj([requests |-> JArr([n \in 1..Cardinality(keep) |->
                                    SerializeRequest(query.requests[nth(n)])]),
              client |-> IF query.client.some THEN query.client.value ELSE JNull])

\* serde_json::to_string(&self.query), as the JSON value the text denotes
SerializeQuery(query) ==
    JObj([requests |-> JArr([i \in 1..Len(query.requests) |->
                                SerializeRequest(query.requests[i])]),
          client |-> IF query.client.some THEN query.client.value ELSE JNull])

\* mutant: the client directory prepared before the client name is asked for
write_stateful_DirFirst(w, f, build_dir) ==
    IF ~w.client_name.some
    THEN [status |-> "ClientNameNotSet",
          fs |-> IF CreateDirAllOk(f, query_dir(build_dir))
                 THEN CreateDirAll(f, query_dir(build_dir)) ELSE f]
    ELSE LET client_dir == PathJoin(query_dir(build_dir), w.client_name.path)
             query_file == PathJoin(client_dir, <<N_query_json>>)
         IN  IF ~CreateDirAllOk(f, client_dir)
             THEN [status |-> "IO", fs |-> f]
             ELSE IF ~WriteOk(CreateDirAll(f, client_dir), query_file)
                  THEN [status |-> "IO", fs |-> CreateDirAll(f, client_dir)]
                  ELSE [status |-> "Ok",
                        fs |-> [CreateDirAll(f, client_dir) EXCEPT
                                   ![query_file] = Json(SerializeQuery(w.query))]]

\* Writer::write_stateful
write_stateful(w, f, build_dir) ==
    IF ~w.client_name.some
    THEN [status |-> "ClientNameNotSet", fs |-> f]
    ELSE LET client_dir == PathJoin(query_dir(build_dir), w.client_name.path)
             query_file == PathJoin(client_dir, <<N_query_json>>)
         IN  IF ~CreateDirAllOk(f, client_dir)
             THEN [status |-> "IO", fs |-> f]
             ELSE IF ~WriteOk(CreateDirAll(f, client_dir), query_file)
                  THEN [status |-> "IO", fs |-> CreateDirAll(f, client_dir)]
                  ELSE [status |-> "Ok",
                        fs |-> [CreateDirAll(f, client_dir) EXCEPT
                                   ![query_file] = Json(SerializeQuery(w.query))]]

\* what the model keeps of a Writer's use: the calls that built it, the result of
\* each write and the file system each write found (none before the write)
NoWrite ==
    [stateless |-> "none", stateful |-> "none", calls |-> <<>>, client |-> NoValue,
     fs_stateless |-> <<>>, fs_stateful |-> <<>>]

(***************************************************************************)
(* The state machine.                                                      *)
(***************************************************************************)
Init ==
    /\ fs \in LocateFileSystems \cup ReaderFileSystems \cup IndexFileSystems
             \cup ObjectDriftFileSystems \cup MismatchFileSystems
    /\ reader = NoReader
    /\ ctor = [status |-> "none", index_file |-> None, cause |-> <<"none">>]
    /\ call = [t \in Threads |-> Idle]
    /\ writer = DefaultWriter
    /\ written = NoWrite
    /\ cg = NoGroup

\* reply::is_available(BuildDir)
IsAvailable(t) ==
    /\ call[t].pc # "resolve"
    /\ \E b \in is_available(fs, BuildDir) :
          call' = [call EXCEPT ![t] =
              [Idle EXCEPT !.op = "is_available", !.pc = "done",
                           !.ret = [status |-> IF b THEN "true" ELSE "false",
                                    value |-> NoObject]]]
    /\ UNCHANGED <<fs, reader, ctor, writer, written, cg>>

\* reply::index_file(BuildDir)
IndexFile(t) ==
    /\ call[t].pc # "resolve"
    /\ \E r \in index_file(fs, BuildDir) :
          call' = [call EXCEPT ![t] =
              [Idle EXCEPT !.op = "index_file", !.pc = "done", !.ret = DecodeOk(r)]]
    /\ UNCHANGED <<fs, reader, ctor, writer, written, cg>>

\* mutant: a failure to parse the index reported as FileApiNotGenerated
FromBuildDir_ParseAsNotGenerated ==
    /\ ~reader.ready
    /\ \E r \in index_file(fs, BuildDir) :
          IF ~r.some
          THEN /\ ctor' = [status |-> "FileApiNotGenerated", index_file |-> r,
                          cause |-> <<"none">>]
               /\ UNCHANGED reader
          ELSE LET res == parse_reply(fs, "Index", r.path)
               IN  /\ ctor' = [status |-> IF res.status = "Parse"
                                          THEN "FileApiNotGenerated" ELSE res.status,
                               index_file |-> r, cause |-> Cause(res)]
                   /\ reader' = IF res.status = "Ok"
                                THEN [ready |-> TRUE, build_dir |-> BuildDir,
                                      index |-> res.value]
                                ELSE reader
    /\ UNCHANGED <<fs, call, writer, written, cg>>

\* mutant: a reply directory without index reported as an IO error
FromBuildDir_EmptyDirAsIO ==
    /\ ~reader.ready
    /\ \E r \in index_file(fs, BuildDir) :
          IF ~r.some
          THEN /\ ctor' = [status |-> IF Exists(fs, dir(BuildDir))
                                      THEN "IO" ELSE "FileApiNotGenerated",
                           index_file |-> r, cause |-> <<"none">>]
               /\ UNCHANGED reader
          ELSE LET res == parse_reply(fs, "Index", r.path)
               IN  /\ ctor' = [status |-> res.status, index_file |-> r, cause |-> Cause(res)]
                   /\ reader' = IF res.status = "Ok"
                                THEN [ready |-> TRUE, build_dir |-> BuildDir,
                                      index |-> res.value]
                                ELSE reader
    /\ UNCHANGED <<fs, call, writer, written, cg>>

\* Reader::from_build_dir(BuildDir)
FromBuildDir ==
    /\ ~reader.ready
    /\ \E r \in index_file(fs, BuildDir) :
          IF ~r.some
          THEN /\ ctor' = [status |-> "FileApiNotGenerated", index_file |-> r,
                          cause |-> <<"none">>]
               /\ UNCHANGED reader
          ELSE LET res == parse_reply(fs, "Index", r.path)
               IN  /\ ctor' = [status |-> res.status, index_file |-> r, cause |-> Cause(res)]
                   /\ reader' = IF res.status = "Ok"
                                THEN [ready |-> TRUE, build_dir |-> BuildDir,
                                      index |-> res.value]
                                ELSE reader
    /\ UNCHANGED <<fs, call, writer, written, cg>>

\* mutant: the catalog entry a lookup finds is moved to the front of the index
HasObject_MoveToFront(t, T) ==
    /\ reader.ready
    /\ call[t].pc # "resolve"
    /\ call' = [call EXCEPT ![t] =
          [Idle EXCEPT !.op = "has_object", !.T = T, !.pc = "done",
                       !.ret = [status |-> IF find_object(reader.index, Object_kind(T),
                                                          Object_major(T)).some
                                           THEN "true" ELSE "false",
                                value |-> NoObject]]]
    /\ LET found == find_object(reader.index, Object_kind(T), Object_major(T))
       IN  reader' = IF found.some
                     THEN [reader EXCEPT !.index.objects =
                              <<found.ref>> \o SelectSeq(@, LAMBDA e : e # found.ref)]
                     ELSE reader
    /\ UNCHANGED <<fs, ctor, writer, written, cg>>

\* Reader::has_object::<T>()
HasObject(t, T) ==
    /\ reader.ready
    /\ call[t].pc # "resolve"
    /\ call' = [call EXCEPT ![t] =
          [Idle EXCEPT !.op = "has_object", !.T = T, !.pc = "done",
                       !.ret = [status |-> IF find_object(reader.index, Object_kind(T),
                                                          Object_major(T)).some
                                           THEN "true" ELSE "false",
                                value |-> NoObject]]]
    /\ UNCHANGED <<fs, reader, ctor, writer, written, cg>>

\* the end of read_object once resolve_references has returned Ok: Ok(object);
\* the end of a resolve_references call the host made itself: Ok(())
Finish(c) ==
    [c EXCEPT !.pc = "done",
              !.ret = DecodeOk(IF c.op = "resolve_references" THEN NoObject ELSE c.object)]

\* mutant: read_object checks the generation: it locates and parses the index
\* again and looks the object up in that catalog
ReadObject_Reload(t, T) ==
    /\ reader.ready
    /\ call[t].pc # "resolve"
    /\ \E r \in index_file(fs, reader.build_dir) :
          LET fresh == IF r.some THEN parse_reply(fs, "Index", r.path) ELSE IOErr
              start == [Idle EXCEPT !.op = "read_object", !.T = T]
          IN  IF fresh.status # "Ok"
              THEN call' = [call EXCEPT ![t] = [start EXCEPT !.pc = "done", !.ret = fresh]]
              ELSE LET reply_reference ==
                           find_object(fresh.value, Object_kind(T), Object_major(T))
                   IN  IF ~reply_reference.some
                       THEN call' = [call EXCEPT ![t] =
                                [start EXCEPT !.pc = "done",
                                              !.ret = [status |-> "ObjectNotFound",
                                                       value |-> NoObject]]]
                       ELSE LET reply_file == PathJoin(dir(reader.build_dir),
                                                       reply_reference.ref.json_file)
                                res == parse_reply(fs, T, reply_file)
                                read == [start EXCEPT !.reads = <<reply_file>>]
                            IN  IF res.status # "Ok"
                                THEN call' = [call EXCEPT ![t] =
                                         [read EXCEPT !.pc = "done", !.ret = res]]
                                ELSE LET parsed == [read EXCEPT !.object = res.value, !.k = 1]
                                     IN  call' = [call EXCEPT ![t] =
                                             IF ResolveOrder(T, res.value) = <<>>
                                             THEN Finish(parsed)
                                             ELSE [parsed EXCEPT !.pc = "resolve"]]
    /\ UNCHANGED <<fs, reader, ctor, writer, written, cg>>

\* mutant: the object file looked up under the build root
ReadObject_BuildRoot(t, T) ==
    /\ reader.ready
    /\ call[t].pc # "resolve"
    /\ LET reply_reference == find_object(reader.index, Object_kind(T), Object_major(T))
           start == [Idle EXCEPT !.op = "read_object", !.T = T]
       IN  IF ~reply_reference.some
           THEN call' = [call EXCEPT ![t] =
                    [start EXCEPT !.pc = "done",
                                  !.ret = [status |-> "ObjectNotFound", value |-> NoObject]]]
           ELSE LET reply_file == PathJoin(reader.build_dir, reply_reference.ref.json_file)
                    res == parse_reply(fs, T, reply_file)
                    read == [start EXCEPT !.reads = <<reply_file>>]
                IN  IF res.status # "Ok"
                    THEN call' = [call EXCEPT ![t] = [read EXCEPT !.pc = "done", !.ret = res]]
                    ELSE LET parsed == [read EXCEPT !.object = res.value, !.k = 1]
                         IN  call' = [call EXCEPT ![t] =
                                 IF ResolveOrder(T, res.value) = <<>>
                                 THEN Finish(parsed)
                                 ELSE [parsed EXCEPT !.pc = "resolve"]]
    /\ UNCHANGED <<fs, reader, ctor, writer, written, cg>>

\* Reader::read_object::<T>() up to and including the parse of the object file
ReadObject(t, T) ==
    /\ reader.ready
    /\ call[t].pc # "resolve"
    /\ LET reply_reference == find_object(reader.index, Object_kind(T), Object_major(T))
           start == [Idle EXCEPT !.op = "read_object", !.T = T]
       IN  IF ~reply_reference.some
           THEN call' = [call EXCEPT ![t] =
                    [start EXCEPT !.pc = "done",
                                  !.ret = [status |-> "ObjectNotFound", value |-> NoObject]]]
           ELSE LET reply_file == PathJoin(dir(reader.build_dir), reply_reference.ref.json_file)
                    res == parse_reply(fs, T, reply_file)
                    read == [start EXCEPT !.reads = <<reply_file>>]
                IN  IF res.status # "Ok"
                    THEN call' = [call EXCEPT ![t] = [read EXCEPT !.pc = "done", !.ret = res]]
                    ELSE LET parsed == [read EXCEPT !.object = res.value, !.k = 1]
                         IN  call' = [call EXCEPT ![t] =
                                 IF ResolveOrder(T, res.value) = <<>>
                                 THEN Finish(parsed)
                                 ELSE [parsed EXCEPT !.pc = "resolve"]]
    /\ UNCHANGED <<fs, reader, ctor, writer, written, cg>>

\* mutant: a satellite that fails to load is skipped and the loop goes on
ResolveStep_SkipFailed(t) ==
    /\ call[t].pc = "resolve"
    /\ LET c == call[t]
           order == ResolveOrder(c.T, c.object)
           item == order[c.k]
           reply_dir == dir(reader.build_dir)
           file == PathJoin(reply_dir, item.json_file)
           res == parse_reply(fs, item.T, file)
           read == [c EXCEPT !.reads = Append(@, file)]
           pushed == [read EXCEPT !.object = IF res.status = "Ok"
                                             THEN Push(c.object, item, res.value)
                                             ELSE c.object,
                                  !.k = c.k + 1]
       IN  call' = [call EXCEPT ![t] = IF c.k = Len(order) THEN Finish(pushed) ELSE pushed]
    /\ UNCHANGED <<fs, reader, ctor, writer, written, cg>>

\* mutant: the object being filled is shared by the calls that resolve at the
\* same time, each pushing into what some call has filled so far
ResolveStep_SharedObject(t) ==
    /\ call[t].pc = "resolve"
    /\ \E u \in DOMAIN call :
          /\ call[u].pc = "resolve" /\ call[u].T = call[t].T
          /\ LET c == [call[t] EXCEPT !.object = call[u].object]
                 order == ResolveOrder(c.T, c.object)
                 item == order[c.k]
                 reply_dir == dir(reader.build_dir)
                 file == PathJoin(reply_dir, item.json_file)
                 res == parse_reply(fs, item.T, file)
                 read == [c EXCEPT !.reads = Append(@, file)]
             IN  IF res.status # "Ok"
                 THEN call' = [call EXCEPT ![t] = [read EXCEPT !.pc = "done", !.ret = res]]
                 ELSE LET pushed == [read EXCEPT !.object = Push(c.object, item, res.value),
                                                 !.k = c.k + 1]
                      IN  call' = [call EXCEPT ![t] =
                              IF c.k = Len(order) THEN Finish(pushed) ELSE pushed]
    /\ UNCHANGED <<fs, reader, ctor, writer, written, cg>>

\* mutant: a failing resolution puts the object back as it was before the call
ResolveStep_RollBack(t) ==
    /\ call[t].pc = "resolve"
    /\ LET c == call[t]
           order == ResolveOrder(c.T, c.object)
           item == order[c.k]
           reply_dir == dir(reader.build_dir)
           file == PathJoin(reply_dir, item.json_file)
           res == parse_reply(fs, item.T, file)
           read == [c EXCEPT !.reads = Append(@, file)]
       IN  IF res.status # "Ok"
           THEN call' = [call EXCEPT ![t] =
                    [read EXCEPT !.pc = "done", !.ret = res,
                                 !.object = IF c.op = "resolve_references"
                                            THEN c.before ELSE @]]
           ELSE LET pushed == [read EXCEPT !.object = Push(c.object, item, res.value),
                                           !.k = c.k + 1]
                IN  call' = [call EXCEPT ![t] =
                        IF c.k = Len(order) THEN Finish(pushed) ELSE pushed]
    /\ UNCHANGED <<fs, reader, ctor, writer, written, cg>>

\* one iteration of the loops of CodeModel::resolve_references: parse the next
\* satellite file and push it, or return its error through read_object
ResolveStep(t) ==
    /\ call[t].pc = "resolve"
    /\ LET c == call[t]
           order == ResolveOrder(c.T, c.object)
           item == order[c.k]
           reply_dir == dir(reader.build_dir)
           file == PathJoin(reply_dir, item.json_file)
           res == parse_reply(fs, item.T, file)
           read == [c EXCEPT !.reads = Append(@, file)]
       IN  IF res.status # "Ok"
           THEN call' = [call EXCEPT ![t] = [read EXCEPT !.pc = "done", !.ret = res]]
           ELSE LET pushed == [read EXCEPT !.object = Push(c.object, item, res.value),
                                           !.k = c.k + 1]
                IN  call' = [call EXCEPT ![t] =
                        IF c.k = Len(order) THEN Finish(pushed) ELSE pushed]
    /\ UNCHANGED <<fs, reader, ctor, writer, written, cg>>

Next ==
    \/ \E t \in Threads : IsAvailable(t)
    \/ \E t \in Threads : IndexFile(t)
    \/ FromBuildDir
    \/ \E t \in Threads, T \in ObjectTypes : HasObject(t, T)
    \/ \E t \in Threads, T \in ObjectTypes : ReadObject(t, T)
    \/ \E t \in Threads : ResolveStep(t)

Spec == Init /\ [][Next]_vars

(***************************************************************************)
(* The Writer of query.rs: requests are added, the client is set, and the  *)
(* query is written, stateless or stateful, into the build directory.      *)
(***************************************************************************)
\* <build>/.cmake/api/v1/query
QueryPath == <<N_build, N_dotcmake, N_api, N_v1, N_query>>

\* the minor versions asked for with add_request_exact
Minors == {7}

\* the client names and the client data handed to set_client
ClientNames == {<<N_client>>, <<N_root, N_tmp>>}
ClientData == {JNull, JObj([my_key |-> JStr("my_value")])}

\* the names a stateless query file can have: <tag>-v<major>, and the same with
\* a minor version appended, which no file written has
StatelessNames ==
    {TagChars[tag] \o <<"-", "v">> \o Decimal(major) \o suffix :
        tag \in DOMAIN KindTags,
        major \in {Object_major(T) : T \in ObjectTypes},
        suffix \in {<<>>} \cup {<<".">> \o Decimal(m) : m \in Minors}}

N_codemodel_v2 == <<"c","o","d","e","m","o","d","e","l","-","v","2">>

QueryPaths ==
    {SubSeq(QueryPath, 1, n) : n \in 1..Len(QueryPath)}
    \cup {QueryPath \o <<name>> : name \in StatelessNames}
    \cup {QueryPath \o <<N_client>>, QueryPath \o <<N_client, N_query_json>>}
    \cup {<<N_root>>, <<N_root, N_tmp>>, <<N_root, N_tmp, N_query_json>>}

\* nothing but the root directory exists
NoBuildDir == [p \in QueryPaths |-> IF p = <<N_root>> THEN Dir ELSE Absent]

\* the query directory exists and is empty
EmptyQueryDir ==
    [p \in QueryPaths |->
        IF p \in {<<N_root>>, <<N_root, N_tmp>>} \/ p \in Ancestors(NoBuildDir, QueryPath)
        THEN Dir ELSE Absent]

\* the build directories a query is written into: without a query directory,
\* with a file in its place, with an empty one, with one holding query files
\* of an earlier run, and with directories where the query files belong
QueryFileSystems ==
    {NoBuildDir,
     [EmptyQueryDir EXCEPT ![QueryPath] = Garbage],
     EmptyQueryDir,
     [EmptyQueryDir EXCEPT ![QueryPath \o <<N_codemodel_v2>>] = Json(OtherDoc),
                           ![QueryPath \o <<N_client>>] = Dir,
                           ![QueryPath \o <<N_client, N_query_json>>] = Json(OtherDoc)],
     [EmptyQueryDir EXCEPT ![QueryPath \o <<N_codemodel_v2>>] = Garbage,
                           ![QueryPath \o <<N_client>>] = Garbage],
     [EmptyQueryDir EXCEPT ![QueryPath \o <<N_codemodel_v2>>] = Dir,
                           ![QueryPath \o <<N_client>>] = Dir,
                           ![QueryPath \o <<N_client, N_query_json>>] = Dir]}

WriterInit ==
    /\ fs \in QueryFileSystems
    /\ reader = NoReader
    /\ ctor = [status |-> "none", index_file |-> None, cause |-> <<"none">>]
    /\ call = [t \in Threads |-> Idle]
    /\ writer = DefaultWriter
    /\ written = NoWrite
    /\ cg = NoGroup

\* the Writer is built before it writes
Building == written.stateless = "none" /\ written.stateful = "none"

\* writer.request_object::<T>()
RequestObject(T) ==
    /\ Building
    /\ Len(writer.query.requests) < MaxRequests
    /\ writer' = request_object(writer, T)
    /\ written' = [written EXCEPT !.calls = Append(@, [T |-> T, minor |-> NoValue])]
    /\ UNCHANGED <<fs, reader, ctor, call, cg>>

\* writer.add_request_exact::<T>(minor)
AddRequestExact(T, minor) ==
    /\ Building
    /\ Len(writer.query.requests) < MaxRequests
    /\ writer' = add_request_exact(writer, T, minor)
    /\ written' = [written EXCEPT !.calls = Append(@, [T |-> T, minor |-> SomeValue(minor)])]
    /\ UNCHANGED <<fs, reader, ctor, call, cg>>

\* writer.request_all_objects()
RequestAllObjects ==
    /\ Building
    /\ writer.query.requests = <<>>
    /\ writer' = request_all_objects(writer)
    /\ written' = [written EXCEPT !.calls =
            [i \in 1..5 |->
                [T |-> <<"CodeModelV2", "ConfigureLogV1", "CacheV2", "ToolchainsV1",
                         "CMakeFilesV1">>[i],
                 minor |-> NoValue]]]
    /\ UNCHANGED <<fs, reader, ctor, call, cg>>

\* writer.set_client(client_name, client_data)
SetClient(client_name, client_data) ==
    /\ Building
    /\ writer' = set_client(writer, client_name, client_data)
    /\ written' = [written EXCEPT !.client =
            SomeValue([name |-> client_name, data |-> client_data])]
    /\ UNCHANGED <<fs, reader, ctor, call, cg>>

\* writer.write_stateless(BuildDir)
WriteStateless ==
    /\ written.stateless = "none"
    /\ LET r == write_stateless(writer, fs, BuildDir)
       IN  /\ fs' = r.fs
           /\ written' = [written EXCEPT !.stateless = r.status, !.fs_stateless = fs]
    /\ UNCHANGED <<reader, ctor, call, writer, cg>>

\* writer.write_stateful(BuildDir)
WriteStateful ==
    /\ written.stateful = "none"
    /\ LET r == write_stateful(writer, fs, BuildDir)
       IN  /\ fs' = r.fs
           /\ written' = [written EXCEPT !.stateful = r.status, !.fs_stateful = fs]
    /\ UNCHANGED <<reader, ctor, call, writer, cg>>

WriterNext ==
    \/ \E T \in ObjectTypes : RequestObject(T)
    \/ \E T \in ObjectTypes, minor \in Minors : AddRequestExact(T, minor)
    \/ RequestAllObjects
    \/ \E client_name \in ClientNames, client_data \in ClientData :
          SetClient(client_name, client_data)
    \/ WriteStateless
    \/ WriteStateful

WriterSpec == WriterInit /\ [][WriterNext]_vars

(***************************************************************************)
(* Concurrent loads: two threads of the host application call has_object   *)
(* and read_object on one Reader (&self) while the reply is not rewritten. *)
(***************************************************************************)
HostThreads == {"t1", "t2"}

\* replies with the catalog codemodel, cache and at most one damaged object file
SharedFileSystems ==
    {[p \in FsPaths |->
        IF p \in DOMAIN faults
        THEN FaultNode(faults[p])
        ELSE MkFs(Dir, (In(N_index_a) :> Json(IndexDoc(<<E_cm, E_cache>>))) @@ NoIndexLike)[p]] :
        faults \in UNION {[F -> {"absent", "garbage", "other"}] :
                            F \in {{}} \cup {{p} : p \in Faultable}}}

ConcInit ==
    /\ fs \in SharedFileSystems
    /\ reader = NoReader
    /\ ctor = [status |-> "none", index_file |-> None, cause |-> <<"none">>]
    /\ call = [t \in HostThreads |-> Idle]
    /\ writer = DefaultWriter
    /\ written = NoWrite
    /\ cg = NoGroup

ConcNext ==
    \/ FromBuildDir
    \/ \E t \in HostThreads, T \in ObjectTypes : HasObject(t, T)
    \/ \E t \in HostThreads, T \in ObjectTypes : ReadObject(t, T)
    \/ \E t \in HostThreads : ResolveStep(t)

ConcSpec == ConcInit /\ [][ConcNext]_vars

(***************************************************************************)
(* Direct resolution: Object::resolve_references is a public method, so    *)
(* the host can call it on an object it holds, be it one read_object       *)
(* returned or one the host deserialized itself (the object types derive   *)
(* Deserialize).                                                           *)
(***************************************************************************)
\* replies with the catalog codemodel, cache and at most one damaged object
\* file, and the reply to a query for all five objects, with all its files and
\* with a garbled first directory file
ResolverFileSystems ==
    SharedFileSystems \cup {FullReply, [FullReply EXCEPT ![In(N_d0)] = Garbage]}

ResolverInit ==
    /\ fs \in ResolverFileSystems
    /\ reader = NoReader
    /\ ctor = [status |-> "none", index_file |-> None, cause |-> <<"none">>]
    /\ call = [t \in Threads |-> Idle]
    /\ writer = DefaultWriter
    /\ written = NoWrite
    /\ cg = NoGroup

\* the host holds an object: the one its last call returned or worked on
Holds(t) ==
    /\ call[t].pc = "done"
    /\ \/ call[t].op \in {"read_object", "from_str"} /\ call[t].ret.status = "Ok"
       \/ call[t].op = "resolve_references"

\* serde_json::from_str::<T>() by the host on the object file the catalog names
\* for T: the object as deserialized, nothing resolved
FromStr(t, T) ==
    /\ reader.ready
    /\ call[t].pc # "resolve"
    /\ find_object(reader.index, Object_kind(T), Object_major(T)).some
    /\ LET reply_reference == find_object(reader.index, Object_kind(T), Object_major(T))
           res == parse_reply(fs, T, PathJoin(dir(reader.build_dir),
                                              reply_reference.ref.json_file))
       IN  call' = [call EXCEPT ![t] =
               [Idle EXCEPT !.op = "from_str", !.T = T, !.pc = "done",
                            !.object = res.value, !.ret = res]]
    /\ UNCHANGED <<fs, reader, ctor, writer, written, cg>>

\* mutant: the resolution step of a kind without references parses the object's
\* file again
ResolveReferences_PlainReparses(t) ==
    /\ Holds(t)
    /\ call[t].resolves < MaxResolves
    /\ LET c == [call[t] EXCEPT !.op = "resolve_references", !.pc = "resolve", !.k = 1,
                                !.reads = <<>>, !.ret = NoResult,
                                !.before = call[t].object, !.resolves = @ + 1]
           reply_reference == find_object(reader.index, Object_kind(c.T), Object_major(c.T))
           file == PathJoin(dir(reader.build_dir), reply_reference.ref.json_file)
       IN  call' = [call EXCEPT ![t] =
               IF ResolveOrder(c.T, c.object) = <<>>
               THEN Finish([c EXCEPT !.reads = <<file>>,
                                     !.object = parse_reply(fs, c.T, file).value])
               ELSE c]
    /\ UNCHANGED <<fs, reader, ctor, writer, written, cg>>

\* object.resolve_references(&reader) called by the host on the object it holds:
\* the default method returns Ok(()) at once, CodeModel's runs its loops
ResolveReferences(t) ==
    /\ Holds(t)
    /\ call[t].resolves < MaxResolves
    /\ LET c == [call[t] EXCEPT !.op = "resolve_references", !.pc = "resolve", !.k = 1,
                                !.reads = <<>>, !.ret = NoResult,
                                !.before = call[t].object, !.resolves = @ + 1]
       IN  call' = [call EXCEPT ![t] =
               IF ResolveOrder(c.T, c.object) = <<>> THEN Finish(c) ELSE c]
    /\ UNCHANGED <<fs, reader, ctor, writer, written, cg>>

ResolverNext ==
    \/ FromBuildDir
    \/ \E t \in Threads, T \in ObjectTypes : ReadObject(t, T)
    \/ \E t \in Threads, T \in ObjectTypes : FromStr(t, T)
    \/ \E t \in Threads : ResolveReferences(t)
    \/ \E t \in Threads : ResolveStep(t)

ResolverSpec == ResolverInit /\ [][ResolverNext]_vars

(***************************************************************************)
(* Properties.  The helpers below restate, from the file system and the    *)
(* catalog alone, what a call is expected to have seen.                    *)
(***************************************************************************)
Done(t, op) == call[t].pc = "done" /\ call[t].op = op

\* a relative path under the reply directory, an absolute path as it is
Resolved(json_file) ==
    IF json_file # <<>> /\ json_file[1] = N_root THEN json_file ELSE ReplyPath \o json_file

\* positions of the catalog entries of type T's kind and major version
Matching(T) ==
    {i \in 1..Len(reader.index.objects) :
        /\ reader.index.objects[i].kind = Object_kind(T)
        /\ reader.index.objects[i].version.major = Object_major(T)}

\* the file at path p decodes as a T
Loads(T, p) ==
    /\ p \in DOMAIN fs
    /\ fs[p].shape = "json"
    /\ from_str(T, fs[p].json).status = "Ok"

\* the value the file at path p decodes to
Loaded(T, p) == from_str(T, fs[p].json).value

\* the last five characters of a file name are ".json" in any letter case
EndsWithDotJson(name) ==
    /\ Len(name) >= 5
    /\ name[Len(name) - 4] = "."
    /\ \A i \in 1..4 :
          name[Len(name) - 4 + i] \in {JSON_EXT[i], UpperCase[CHOOSE n \in 1..26 :
                                                               LowerCase[n] = JSON_EXT[i]]}

\* the regular files index-*.json of the reply directory
IndexFiles ==
    IF fs[ReplyPath].shape # "dir"
    THEN {}
    ELSE {p \in DOMAIN fs :
            /\ Len(p) = Len(ReplyPath) + 1
            /\ SubSeq(p, 1, Len(ReplyPath)) = ReplyPath
            /\ fs[p].shape \in {"unreadable", "garbage", "json"}
            /\ Len(p[Len(p)]) >= 6
            /\ SubSeq(p[Len(p)], 1, 6) = <<"i","n","d","e","x","-">>
            /\ EndsWithDotJson(p[Len(p)])}

\* C1: after a successful read_object::<CodeModel>(), every configuration has as
\* many resolved targets as target references and as many resolved directories as
\* directory references, and position j of a resolved list is the parse of the
\* file that reference j names under the reply directory
C1_ResolvedAtMatchingPositions ==
    \A t \in Threads :
        (Done(t, "read_object") /\ call[t].T = "CodeModelV2" /\ call[t].ret.status = "Ok") =>
            \A i \in 1..Len(call[t].ret.value.configurations) :
                LET c == call[t].ret.value.configurations[i]
                IN  /\ Len(c.targets) = Len(c.target_refs)
                    /\ Len(c.directories) = Len(c.directory_refs)
                    /\ \A j \in 1..Len(c.target_refs) :
                          /\ Loads("Target", Resolved(c.target_refs[j].json_file))
                          /\ c.targets[j] =
                                Loaded("Target", Resolved(c.target_refs[j].json_file))
                    /\ \A j \in 1..Len(c.directory_refs) :
                          /\ Loads("Directory", Resolved(c.directory_refs[j].json_file))
                          /\ c.directories[j] =
                                Loaded("Directory", Resolved(c.directory_refs[j].json_file))

\* a codemodel of two configurations was read, the first with two different targets
\* and two different directories
C1_Witness ==
    \E t \in Threads :
        /\ Done(t, "read_object") /\ call[t].T = "CodeModelV2" /\ call[t].ret.status = "Ok"
        /\ Len(call[t].ret.value.configurations) = 2
        /\ Len(call[t].ret.value.configurations[1].targets) = 2
        /\ call[t].ret.value.configurations[1].targets[1]
              # call[t].ret.value.configurations[1].targets[2]
        /\ Len(call[t].ret.value.configurations[1].directories) = 2
        /\ call[t].ret.value.configurations[1].directories[1]
              # call[t].ret.value.configurations[1].directories[2]
        /\ Len(call[t].ret.value.configurations[2].targets) = 1

\* the satellite files a codemodel document names, over all its configurations
SatellitesLoad(doc) ==
    \A i \in 1..Len(doc.configurations) :
        /\ \A j \in 1..Len(doc.configurations[i].targets) :
              Loads("Target", Resolved(doc.configurations[i].targets[j].jsonFile))
        /\ \A j \in 1..Len(doc.configurations[i].directories) :
              Loads("Directory", Resolved(doc.configurations[i].directories[j].jsonFile))

\* the file of the first catalog entry of type T
RootFile(T) == Resolved(reader.index.objects[MinOf(Matching(T))].json_file)

\* C2: read_object::<CodeModel>() returns Ok exactly when the root file and every
\* satellite file it names load; otherwise it returns an error and no CodeModel,
\* however many satellites were parsed before the failing one
C2_AtomicFailure ==
    \A t \in Threads :
        (Done(t, "read_object") /\ call[t].T = "CodeModelV2") =>
            /\ call[t].ret.status \in {"Ok", "IO", "Parse", "ObjectNotFound"}
            /\ call[t].ret.status # "Ok" => call[t].ret.value = NoObject
            /\ call[t].ret.status = "Ok" <=>
                  /\ Matching("CodeModelV2") # {}
                  /\ Loads("CodeModelV2", RootFile("CodeModelV2"))
                  /\ SatellitesLoad(fs[RootFile("CodeModelV2")].json)
            /\ (/\ Matching("CodeModelV2") # {}
                /\ Loads("CodeModelV2", RootFile("CodeModelV2"))
                /\ ~SatellitesLoad(fs[RootFile("CodeModelV2")].json))
                  => call[t].ret.status \in {"IO", "Parse"}

\* a load failed on a satellite after three satellites had been parsed and pushed
C2_Witness ==
    \E t \in Threads :
        /\ Done(t, "read_object") /\ call[t].T = "CodeModelV2"
        /\ call[t].ret.status \in {"IO", "Parse"}
        /\ Len(call[t].reads) = 5
        /\ Len(call[t].object.configurations[1].targets) = 2
        /\ call[t].ret.value = NoObject

\* C3: has_object::<T>() is true iff the catalog has an entry of T's kind and major
\* version, whatever its minor; read_object::<T>() returns ObjectNotFound iff it
\* has none, and then reads no file and returns no object
C3_ObjectNotFound ==
    \A t \in Threads :
        /\ Done(t, "has_object") =>
              (call[t].ret.status = "true" <=> Matching(call[t].T) # {})
        /\ Done(t, "has_object") => call[t].ret.status \in {"true", "false"}
        /\ Done(t, "read_object") =>
              /\ call[t].ret.status = "ObjectNotFound" <=> Matching(call[t].T) = {}
              /\ call[t].ret.status = "ObjectNotFound" =>
                    call[t].reads = <<>> /\ call[t].ret.value = NoObject

\* a codemodel was asked of a catalog that lists codemodel with another major only
C3_Witness ==
    \E t \in Threads :
        /\ Done(t, "read_object") /\ call[t].T = "CodeModelV2"
        /\ call[t].ret.status = "ObjectNotFound"
        /\ \E i \in 1..Len(reader.index.objects) :
              /\ reader.index.objects[i].kind = "CodeModel"
              /\ reader.index.objects[i].version.major = 1

\* C4: of several catalog entries with T's kind and major version, read_object
\* loads the file of the first in catalog order and reads the file of no later one
C4_FirstMatchWins ==
    \A t \in Threads :
        (call[t].op = "read_object" /\ Matching(call[t].T) # {}) =>
            /\ Len(call[t].reads) >= 1
            /\ call[t].reads[1] = RootFile(call[t].T)
            /\ \A i \in Matching(call[t].T), n \in 1..Len(call[t].reads) :
                  call[t].reads[n] = Resolved(reader.index.objects[i].json_file)
                      => call[t].reads[n] = RootFile(call[t].T)

\* a codemodel was read from a catalog with two codemodel entries of major 2 that
\* name different files and carry different minors
C4_Witness ==
    \E t \in Threads :
        /\ Done(t, "read_object") /\ call[t].T = "CodeModelV2"
        /\ call[t].ret.status = "Ok"
        /\ \E i, j \in Matching("CodeModelV2") :
              /\ i < j
              /\ reader.index.objects[i].json_file # reader.index.objects[j].json_file
              /\ reader.index.objects[i].version.minor < reader.index.objects[j].version.minor

\* C5: is_available agrees with index_file(..).is_some(), from_build_dir fails with
\* FileApiNotGenerated iff index_file gives None, and with the reply directory
\* absent is_available is false, index_file is None and from_build_dir fails
\* with FileApiNotGenerated
C5_AvailabilityAgrees ==
    /\ \A t \in Threads :
          /\ Done(t, "is_available") => (call[t].ret.status = "true" <=> IndexFiles # {})
          /\ Done(t, "index_file") => (call[t].ret.value.some <=> IndexFiles # {})
          /\ (Done(t, "is_available") /\ fs[ReplyPath].shape = "absent")
                => call[t].ret.status = "false"
          /\ (Done(t, "index_file") /\ fs[ReplyPath].shape = "absent")
                => call[t].ret.value = None
    /\ ctor.status # "none" =>
          /\ ctor.status = "FileApiNotGenerated" <=> ~ctor.index_file.some
          /\ ctor.status = "FileApiNotGenerated" <=> IndexFiles = {}
    /\ (ctor.status # "none" /\ fs[ReplyPath].shape = "absent")
          => ctor.status = "FileApiNotGenerated"

\* is_available answered false on a reply directory that exists without an index
C5_Witness ==
    \E t \in Threads :
        /\ Done(t, "is_available")
        /\ call[t].ret.status = "false"
        /\ fs[ReplyPath].shape = "dir"
        /\ ctor.status = "FileApiNotGenerated"

\* the index-*.json files of the reply directory that are not a valid index document
BrokenIndexFiles ==
    {p \in IndexFiles : ~Loads("Index", p)}

\* C6 as stated: when the reply directory holds an index-*.json file whose text is
\* not a valid index document, is_available is true, index_file returns that file
\* and from_build_dir fails with Parse
C6_Original ==
    \A p \in {q \in BrokenIndexFiles : fs[q].shape \in {"garbage", "json"}} :
        /\ \A t \in Threads :
              /\ Done(t, "is_available") => call[t].ret.status = "true"
              /\ Done(t, "index_file") => call[t].ret.value = Some(p)
        /\ ctor.status # "none" => ctor.status = "Parse" /\ ~reader.ready

\* C6 as amended: when the only index-*.json file of the reply directory is a
\* readable text file that is not a valid index document, is_available is true,
\* index_file returns that file and from_build_dir fails with Parse and builds
\* no Reader; when that only file cannot be read as text the failure is IO
C6_MalformedOnlyIndex ==
    \A p \in BrokenIndexFiles :
        IndexFiles = {p} =>
            /\ \A t \in Threads :
                  /\ Done(t, "is_available") => call[t].ret.status = "true"
                  /\ Done(t, "index_file") => call[t].ret.value = Some(p)
            /\ ctor.status # "none" =>
                  /\ ~reader.ready
                  /\ ctor.index_file = Some(p)
                  /\ fs[p].shape \in {"garbage", "json"} => ctor.status = "Parse"
                  /\ fs[p].shape = "unreadable" => ctor.status = "IO"

\* from_build_dir failed with Parse on a lone index file that is not JSON
C6_Witness ==
    /\ ctor.status = "Parse"
    /\ ~reader.ready
    /\ \E p \in BrokenIndexFiles : IndexFiles = {p} /\ fs[p].shape = "garbage"

C9_Deterministic ==
    \A t \in Threads :
        (Done(t, "index_file") /\ ctor.status # "none")
            => call[t].ret.value = ctor.index_file

\* the satellite names of a codemodel document: per configuration, in document
\* order, those of its targets and then those of its directories
RECURSIVE NamedFrom(_, _)
NamedFrom(configurations, i) ==
    IF i > Len(configurations)
    THEN <<>>
    ELSE [j \in 1..Len(configurations[i].targets) |->
             configurations[i].targets[j].jsonFile]
         \o [j \in 1..Len(configurations[i].directories) |->
             configurations[i].directories[j].jsonFile]
         \o NamedFrom(configurations, i + 1)

IndexDocument == fs[In(N_index_a)].json

\* index-a.json is the only index file and holds a JSON object with the three
\* parts of an index, each of its shape
HasIndexShape ==
    /\ IndexFiles = {In(N_index_a)}
    /\ fs[In(N_index_a)].shape = "json"
    /\ {"cmake", "objects", "reply"} \subseteq DOMAIN IndexDocument
    /\ {"version", "paths", "generator"} \subseteq DOMAIN IndexDocument.cmake

\* the fields no object of the tool info or of a catalog entry is specified to
\* have, over the index, cmake, version, paths, generator, each entry and each
\* entry's version
Unrecognized ==
    LET d == IndexDocument
    IN  (DOMAIN d \ {"cmake", "objects", "reply"})
        \cup (DOMAIN d.cmake \ {"version", "paths", "generator"})
        \cup (DOMAIN d.cmake.version
                \ {"major", "minor", "patch", "suffix", "string", "isDirty"})
        \cup (DOMAIN d.cmake.paths \ {"cmake", "ctest", "cpack", "root"})
        \cup (DOMAIN d.cmake.generator \ {"multiConfig", "name", "platform"})
        \cup UNION {DOMAIN d.objects[i] \ {"kind", "version", "jsonFile"} :
                        i \in 1..Len(d.objects)}
        \cup UNION {DOMAIN d.objects[i].version \ {"major", "minor"} :
                        i \in 1..Len(d.objects)}

\* C11 as stated: an index document in which an object of the tool info or of a
\* catalog entry, the entry's nested version included, carries one unrecognized
\* field fails to decode with a Parse error naming that field, and no Index is
\* produced
C11_StrictFixedShape ==
    (HasIndexShape /\ ctor.status # "none") =>
        \A name \in Unrecognized :
            /\ ctor.status = "Parse"
            /\ ctor.cause = <<"unknown field", name>>
            /\ ~reader.ready

\* the same without the nested version object of a catalog entry
C11_StrictButEntryVersion ==
    (HasIndexShape /\ ctor.status # "none") =>
        \A name \in Unrecognized :
            \/ /\ ctor.status = "Parse"
               /\ ctor.cause = <<"unknown field", name>>
               /\ ~reader.ready
            \/ \E i \in 1..Len(IndexDocument.objects) :
                  name \in DOMAIN IndexDocument.objects[i].version

\* the file at path p is JSON with a field "test", at its top or in one of its
\* configurations
Drifted(p) ==
    /\ p \in DOMAIN fs
    /\ fs[p].shape = "json"
    /\ \/ "test" \in DOMAIN fs[p].json
       \/ /\ "configurations" \in DOMAIN fs[p].json
          /\ \E i \in 1..Len(fs[p].json.configurations) :
                "test" \in DOMAIN fs[p].json.configurations[i]

\* the reply is the generated reply for all five objects but for fields "test"
\* added to one of its object files
GeneratedButDrift ==
    /\ reader.ready
    /\ Len(reader.index.objects) = 5
    /\ \A p \in {ReplyPath \o <<n>> : n \in {N_cache, N_tc, N_cf, N_cl, N_t0, N_t1, N_d0, N_d1}}
                \cup {<<N_root, N_d9>>} :
          /\ fs[p].shape = "json"
          /\ \/ fs[p] = ObjectFiles[p]
             \/ [k \in DOMAIN fs[p].json \ {"test"} |-> fs[p].json[k]] = ObjectFiles[p].json
    /\ fs[In(N_cm)].shape = "json"
    /\ \A k \in DOMAIN ObjectFiles[In(N_cm)].json \ {"configurations"} :
          fs[In(N_cm)].json[k] = ObjectFiles[In(N_cm)].json[k]
    /\ \A i \in 1..Len(fs[In(N_cm)].json.configurations) :
          \A k \in DOMAIN ObjectFiles[In(N_cm)].json.configurations[i] :
              fs[In(N_cm)].json.configurations[i][k]
                  = ObjectFiles[In(N_cm)].json.configurations[i][k]

ErrorShape(v) ==
    \/ v.t = "obj" /\ DOMAIN v.obj = {"error"} /\ v.obj.error.t = "str"
    \/ v.t = "arr" /\ Len(v.arr) = 1 /\ v.arr[1].t = "str"

VersionShape(v) ==
    \/ /\ v.t = "obj"
       /\ {"major", "minor"} \subseteq DOMAIN v.obj
       /\ v.obj.major.t = "num" /\ v.obj.minor.t = "num"
    \/ v.t = "arr" /\ Len(v.arr) = 2 /\ v.arr[1].t = "num" /\ v.arr[2].t = "num"

WireTags == {"codemodel", "cache", "toolchains", "cmakeFiles", "configureLog"}

EntryShape(v) ==
    \/ /\ v.t = "obj"
       /\ DOMAIN v.obj = {"kind", "version", "jsonFile"}
       /\ v.obj.kind.t = "str" /\ v.obj.kind.str \in WireTags
       /\ VersionShape(v.obj.version)
       /\ v.obj.jsonFile.t = "str"
    \/ /\ v.t = "arr"
       /\ Len(v.arr) = 3
       /\ v.arr[1].t = "str" /\ v.arr[1].str \in WireTags
       /\ VersionShape(v.arr[2])
       /\ v.arr[3].t = "str"

QueryShape(v) ==
    \/ v.t = "obj" /\ DOMAIN v.obj \subseteq {"client", "requests", "responses"}
    \/ v.t = "arr" /\ Len(v.arr) = 3

\* the first shape, in the order error, catalog entry, query.json record, that a
\* value inside a client mapping has
ClientValueVariant(v) ==
    IF ErrorShape(v) THEN "Error"
    ELSE IF EntryShape(v) THEN "ReplyFileReference"
    ELSE IF QueryShape(v) THEN "QueryJson"
    ELSE "none"

ClientMappingShape(v) ==
    v.t = "obj" /\ \A k \in DOMAIN v.obj : ClientValueVariant(v.obj[k]) # "none"

\* the first shape, in the order error, catalog entry, client mapping, that a value
\* of the reply mapping has
ReplyValueVariant(v) ==
    IF ErrorShape(v) THEN "Error"
    ELSE IF EntryShape(v) THEN "ReplyFileReference"
    ELSE IF ClientMappingShape(v) THEN "Client"
    ELSE IF v.t = "null" THEN "Unknown"
    ELSE "none"

\* the index document is a valid index but, perhaps, for its reply mapping
FixedShapeValid ==
    /\ HasIndexShape
    /\ Unrecognized = {}
    /\ DOMAIN IndexDocument.cmake.version
          = {"major", "minor", "patch", "suffix", "string", "isDirty"}

\* C13: every value of the reply mapping is decoded as the first, in the order
\* error record, catalog entry, client mapping, of the shapes it has, and every
\* value inside a client mapping as the first, in the order error record, catalog
\* entry, query.json record, of the shapes it has: the variant depends on the
\* structure of the value alone
C13_FirstShapeInOrder ==
    (FixedShapeValid /\ ctor.status # "none") =>
        LET reply == IndexDocument.reply
        IN  /\ (\A label \in DOMAIN reply : ReplyValueVariant(reply[label]) # "none")
                  => reader.ready
            /\ reader.ready =>
                  /\ DOMAIN reader.index.reply = DOMAIN reply
                  /\ \A label \in DOMAIN reply :
                        /\ reader.index.reply[label].variant = ReplyValueVariant(reply[label])
                        /\ reader.index.reply[label].variant = "Client" =>
                              \A k \in DOMAIN reply[label].obj :
                                  reader.index.reply[label].fields[k].variant
                                      = ClientValueVariant(reply[label].obj[k])

\* an index was decoded whose reply mapping holds a catalog entry, an error record
\* and a client mapping that holds the three shapes of its own
C13_Witness ==
    /\ FixedShapeValid
    /\ reader.ready
    /\ DOMAIN reader.index.reply = {"first", "second", "third"}
    /\ reader.index.reply.first.variant = "ReplyFileReference"
    /\ reader.index.reply.second.variant = "Error"
    /\ reader.index.reply.third.variant = "Client"
    /\ reader.index.reply.third.fields.entry.variant = "ReplyFileReference"
    /\ reader.index.reply.third.fields.unknown.variant = "Error"
    /\ reader.index.reply.third.fields.queryjson.variant = "QueryJson"

\* C14 as stated: a value of the reply mapping that is any JSON object, of the error
\* shape, of the catalog-entry shape or of neither, and any JSON value as the
\* client data of a query.json record, is accepted: the index is decoded
C14_PermissiveReply ==
    (/\ FixedShapeValid
     /\ ctor.status # "none"
     /\ \A label \in DOMAIN IndexDocument.reply : IndexDocument.reply[label].t = "obj")
        => ctor.status = "Ok" /\ reader.ready

\* the part of C14 about client data: a query.json record is decoded whatever JSON
\* value its `client` key holds, and a value other than null is kept as it is
C14_ClientDataAccepted ==
    (/\ FixedShapeValid
     /\ ctor.status # "none"
     /\ \A label \in DOMAIN IndexDocument.reply :
           /\ IndexDocument.reply[label].t = "obj"
           /\ DOMAIN IndexDocument.reply[label].obj = {"entry", "unknown", "queryjson"}
           /\ IndexDocument.reply[label].obj.queryjson.t = "obj"
           /\ DOMAIN IndexDocument.reply[label].obj.queryjson.obj
                 = {"client", "requests", "responses"})
        => /\ ctor.status = "Ok"
           /\ \A label \in DOMAIN IndexDocument.reply :
                 LET payload == IndexDocument.reply[label].obj.queryjson.obj.client
                     decoded == reader.index.reply[label].fields.queryjson.client
                 IN  IF payload = JNull
                     THEN ~decoded.some
                     ELSE decoded.some /\ decoded.value = payload

\* the file at path p cannot be read as text: it is missing, a directory, or
\* unreadable
CannotRead(p) ==
    p \notin DOMAIN fs \/ fs[p].shape \in {"absent", "dir", "nodir", "unreadable"}

\* the file at path p is text that does not decode as a T
CannotDecode(T, p) ==
    /\ ~CannotRead(p)
    /\ fs[p].shape = "garbage" \/ from_str(T, fs[p].json).status # "Ok"

\* the type of the n-th file a read_object call reads: T itself, then satellites
TypeOfRead(t, n) ==
    IF n = 1 THEN call[t].T ELSE ResolveOrder(call[t].T, call[t].object)[n - 1].T

\* the failures of loading are returned as they are: IO when the index file, an
\* object file or a satellite file cannot be read, Parse when it cannot be decoded
LoadErrorsSurface ==
    /\ (ctor.status # "none" /\ ctor.index_file.some) =>
          /\ ctor.status = "IO" <=> CannotRead(ctor.index_file.path)
          /\ ctor.status = "Parse" <=> CannotDecode("Index", ctor.index_file.path)
    /\ \A t \in Threads :
          (Done(t, "read_object") /\ call[t].reads # <<>>) =>
              LET n == Len(call[t].reads)
              IN  /\ call[t].ret.status = "IO" <=> CannotRead(call[t].reads[n])
                  /\ call[t].ret.status = "Parse"
                        <=> CannotDecode(TypeOfRead(t, n), call[t].reads[n])

\* C15 as stated: every I/O failure met while locating or loading, the failure to
\* enumerate an existing reply directory included, is returned as ReaderError::IO
\* and every decode failure as ReaderError::Parse; none becomes another outcome
C15_NoErrorSwallowed ==
    /\ LoadErrorsSurface
    /\ (ctor.status # "none" /\ fs[ReplyPath].shape = "nodir") => ctor.status = "IO"

(***************************************************************************)
(* Properties of the Writer, checked under WriterSpec.                     *)
(***************************************************************************)
\* <b>/.cmake/api/v1/query/<K.as_str()>-v<N> for the kind K and the major N of T
ExpectedStatelessFile(T) ==
    <<N_build, N_dotcmake, N_api, N_v1, N_query,
      TagChars[as_str(Object_kind(T))] \o <<"-", "v">> \o Decimal(Object_major(T))>>

\* C16: after a successful write_stateless, the file <query dir>/<tag>-v<major> of
\* every request added to the writer exists and is empty, whatever the build
\* directory held before the call
C16_StatelessFilesEmpty ==
    written.stateless = "Ok" =>
        \A i \in 1..Len(written.calls) :
            /\ ExpectedStatelessFile(written.calls[i].T) \in DOMAIN fs
            /\ fs[ExpectedStatelessFile(written.calls[i].T)] = Empty

\* write_stateless succeeded where codemodel-v2 was a file with content: the file
\* is empty now
C16_Witness ==
    /\ written.stateless = "Ok"
    /\ \E i \in 1..Len(written.calls) : written.calls[i].T = "CodeModelV2"
    /\ written.fs_stateless[ExpectedStatelessFile("CodeModelV2")] = Json(OtherDoc)
    /\ fs[ExpectedStatelessFile("CodeModelV2")] = Empty

\* write_stateless succeeded where the query directory did not exist
C16_WitnessNoQueryDir ==
    /\ written.stateless = "Ok"
    /\ written.calls # <<>>
    /\ written.fs_stateless[QueryPath] = Absent
    /\ fs[QueryPath] = Dir

\* <b>/.cmake/api/v1/query/<name>/query.json for the name handed to set_client
ExpectedStatefulFile ==
    PathJoin(<<N_build, N_dotcmake, N_api, N_v1, N_query>>, written.client.value.name)
    \o <<N_query_json>>

\* the JSON object written to query.json
WrittenQuery == fs[ExpectedStatefulFile].json

\* C17: after set_client(name, D), requests added one by one and a successful
\* write_stateful, query.json in the client's directory holds an object whose
\* "client" is D and whose "requests" has one {kind, version} element for every
\* call, in call order, duplicates kept, with the major of the kind's type
C17_StatefulRoundTrip ==
    written.stateful = "Ok" =>
        /\ written.client.some
        /\ ExpectedStatefulFile \in DOMAIN fs
        /\ fs[ExpectedStatefulFile].shape = "json"
        /\ WrittenQuery.t = "obj"
        /\ DOMAIN WrittenQuery.obj = {"requests", "client"}
        /\ WrittenQuery.obj.client = written.client.value.data
        /\ WrittenQuery.obj.requests.t = "arr"
        /\ Len(WrittenQuery.obj.requests.arr) = Len(written.calls)
        /\ \A i \in 1..Len(written.calls) :
              LET request == WrittenQuery.obj.requests.arr[i]
              IN  /\ request.t = "obj"
                  /\ {"kind", "version"} = DOMAIN request.obj
                  /\ request.obj.kind = JStr(as_str(Object_kind(written.calls[i].T)))
                  /\ request.obj.version.t = "obj"
                  /\ request.obj.version.obj.major = JNum(Object_major(written.calls[i].T))

\* a query with client data and the same request added twice was written over a
\* query.json of an earlier run
C17_Witness ==
    /\ written.stateful = "Ok"
    /\ written.client.value.data = JObj([my_key |-> JStr("my_value")])
    /\ Len(written.calls) = 2
    /\ written.calls[1] = written.calls[2]
    /\ written.fs_stateful[ExpectedStatefulFile] = Json(OtherDoc)
    /\ Len(WrittenQuery.obj.requests.arr) = 2

\* the file names in the query directory a write_stateless call changed
StatelessChanged ==
    {p \in DOMAIN fs : /\ Len(p) = Len(QueryPath) + 1
                       /\ SubSeq(p, 1, Len(QueryPath)) = QueryPath
                       /\ p # QueryPath \o <<N_client>>
                       /\ fs[p] # written.fs_stateless[p]}

\* C18: the minor version is used only by stateful queries: write_stateless
\* writes <tag>-v<major> for a request with a minor version as for one without,
\* and no other file; query.json has "minor" in a request's version exactly when
\* the request was added with add_request_exact, with the minor given
C18_MinorOnlyStateful ==
    /\ written.stateless = "Ok" =>
          /\ StatelessChanged \subseteq
                {ExpectedStatelessFile(written.calls[i].T) : i \in 1..Len(written.calls)}
          /\ \A i \in 1..Len(written.calls) :
                fs[ExpectedStatelessFile(written.calls[i].T)] = Empty
    /\ written.stateful = "Ok" =>
          \A i \in 1..Len(written.calls) :
              LET version == WrittenQuery.obj.requests.arr[i].obj.version.obj
              IN  IF written.calls[i].minor.some
                  THEN version = [major |-> JNum(Object_major(written.calls[i].T)),
                                  minor |-> JNum(written.calls[i].minor.value)]
                  ELSE version = [major |-> JNum(Object_major(written.calls[i].T))]

\* a request with a minor version and one without, of the same type, were written
\* stateless into an empty query directory, as one file, and stateful, as two
\* requests of which the first has the minor version
C18_Witness ==
    /\ written.stateless = "Ok" /\ written.stateful = "Ok"
    /\ Len(written.calls) = 2
    /\ written.calls[1] = [T |-> "CacheV2", minor |-> SomeValue(7)]
    /\ written.calls[2] = [T |-> "CacheV2", minor |-> NoValue]
    /\ StatelessChanged = {ExpectedStatelessFile("CacheV2")}
    /\ "minor" \in DOMAIN WrittenQuery.obj.requests.arr[1].obj.version.obj
    /\ "minor" \notin DOMAIN WrittenQuery.obj.requests.arr[2].obj.version.obj

\* the tag and the major of every object type
Registry == {<<as_str(Object_kind(T)), Object_major(T)>> : T \in ObjectTypes}

\* the stateless query file named from a request of query.json: its "kind"
\* string and its major
FileOfRequest(request) ==
    QueryPath \o <<TagChars[request.obj.kind.str] \o <<"-", "v">>
                   \o Decimal(request.obj.version.obj.major.num)>>

\* C19: five kinds with distinct tags and the majors codemodel 2, cache 2,
\* toolchains 1, cmakeFiles 1, configureLog 1; as_str gives, for every kind, the
\* tag the kind is serialized to and deserialized from, so that for every request
\* the "kind" written to query.json names the stateless file written for it and
\* decodes, in a catalog entry, to the kind the lookup of its type compares with
C19_OneTagPerKind ==
    /\ Cardinality(ObjectKind) = 5
    /\ Cardinality({as_str(k) : k \in ObjectKind}) = 5
    /\ {Object_kind(T) : T \in ObjectTypes} = ObjectKind
    /\ Registry = {<<"codemodel", 2>>, <<"cache", 2>>, <<"toolchains", 1>>,
                   <<"cmakeFiles", 1>>, <<"configureLog", 1>>}
    /\ \A k \in ObjectKind :
          /\ RenameTag(k) = as_str(k)
          /\ as_str(k) \in DOMAIN KindTags
          /\ KindTags[as_str(k)] = k
    /\ (written.stateless = "Ok" /\ written.stateful = "Ok") =>
          \A i \in 1..Len(written.calls) :
              LET request == WrittenQuery.obj.requests.arr[i]
              IN  /\ fs[FileOfRequest(request)] = Empty
                  /\ request.obj.kind.str \in DOMAIN KindTags
                  /\ KindTags[request.obj.kind.str] = Object_kind(written.calls[i].T)
                  /\ request.obj.version.obj.major.num = Object_major(written.calls[i].T)

\* all five object types were requested and written, stateless into a build
\* directory without a query directory, and stateful
C19_Witness ==
    /\ written.stateless = "Ok" /\ written.stateful = "Ok"
    /\ written.fs_stateless[QueryPath] = Absent
    /\ {written.calls[i].T : i \in 1..Len(written.calls)} = ObjectTypes
    /\ \A i \in 1..Len(written.calls) :
          fs[FileOfRequest(WrittenQuery.obj.requests.arr[i])] = Empty

(***************************************************************************)
(* Properties of concurrent loads, checked under ConcSpec.                 *)
(***************************************************************************)
\* resolve_references run on its own from its k-th satellite on, up to and
\* without the n-th, to the end when n is 0: the object filled, or the first error
RECURSIVE ResolveAlone(_, _, _, _)
ResolveAlone(T, object, k, n) ==
    IF (n > 0 /\ k >= n) \/ k > Len(ResolveOrder(T, object))
    THEN DecodeOk(object)
    ELSE LET item == ResolveOrder(T, object)[k]
             res == parse_reply(fs, item.T, PathJoin(dir(reader.build_dir), item.json_file))
         IN  IF res.status # "Ok"
             THEN res
             ELSE ResolveAlone(T, Push(object, item, res.value), k + 1, n)

\* read_object::<T>() run on its own, stopped before its n-th satellite when n
\* is not 0
ReadAlone(T, n) ==
    LET reply_reference == find_object(reader.index, Object_kind(T), Object_major(T))
    IN  IF ~reply_reference.some
        THEN [status |-> "ObjectNotFound", value |-> NoObject]
        ELSE LET res == parse_reply(fs, T, PathJoin(dir(reader.build_dir),
                                                    reply_reference.ref.json_file))
             IN  IF res.status # "Ok" THEN res ELSE ResolveAlone(T, res.value, 1, n)

\* has_object::<T>() run on its own
HasAlone(T) ==
    IF \E i \in 1..Len(reader.index.objects) :
          /\ reader.index.objects[i].kind = Object_kind(T)
          /\ reader.index.objects[i].version.major = Object_major(T)
    THEN "true" ELSE "false"

\* C20: while the reply directory is not modified, every has_object and
\* read_object call of two threads on one Reader, however the calls interleave,
\* returns what the call returns when run on its own, a call under way has filled
\* its object as it has when run on its own, and two read_object calls for one
\* type return equal results
C20_LoadsIndependent ==
    /\ \A t \in HostThreads :
          /\ (call[t].op = "has_object" /\ call[t].pc = "done") =>
                call[t].ret.status = HasAlone(call[t].T)
          /\ (call[t].op = "read_object" /\ call[t].pc = "done") =>
                call[t].ret = ReadAlone(call[t].T, 0)
          /\ (call[t].op = "read_object" /\ call[t].pc = "resolve") =>
                DecodeOk(call[t].object) = ReadAlone(call[t].T, call[t].k)
    /\ \A t, u \in HostThreads :
          (/\ call[t].op = "read_object" /\ call[t].pc = "done"
           /\ call[u].op = "read_object" /\ call[u].pc = "done"
           /\ call[t].T = call[u].T) => call[t].ret = call[u].ret

\* one thread has read the codemodel with its satellites while the other is
\* reading it and has resolved one satellite
C20_Witness ==
    /\ call["t1"].op = "read_object" /\ call["t1"].pc = "done"
    /\ call["t1"].T = "CodeModelV2" /\ call["t1"].ret.status = "Ok"
    /\ Len(call["t1"].reads) > 2
    /\ call["t2"].op = "read_object" /\ call["t2"].pc = "resolve"
    /\ call["t2"].T = "CodeModelV2" /\ call["t2"].k = 2

\* C21: once a Reader is constructed, no call changes its index or its build
\* directory, and no step of the library creates, modifies or deletes a file
C21_ReaderNeverChanges ==
    [][/\ reader.ready => reader' = reader
       /\ fs' = fs]_vars

\* a read_object call failed on a satellite file and the Reader still holds the
\* build directory it was given and the index its index file decodes to
C21_Witness ==
    \E t \in Threads :
        /\ Done(t, "read_object")
        /\ call[t].ret.status \in {"IO", "Parse"}
        /\ Len(call[t].reads) >= 2
        /\ reader.ready
        /\ reader.build_dir = BuildDir
        /\ Len(reader.index.objects) = 2
        /\ reader.index = from_str("Index", fs[ctor.index_file.path].json).value

\* the satellites a codemodel document names, with the schema each is read as:
\* per configuration, in document order, its targets and then its directories
RECURSIVE SatellitesFrom(_, _)
SatellitesFrom(configurations, i) ==
    IF i > Len(configurations)
    THEN <<>>
    ELSE [j \in 1..Len(configurations[i].targets) |->
             [T |-> "Target", file |-> Resolved(configurations[i].targets[j].jsonFile)]]
         \o [j \in 1..Len(configurations[i].directories) |->
             [T |-> "Directory",
              file |-> Resolved(configurations[i].directories[j].jsonFile)]]
         \o SatellitesFrom(configurations, i + 1)

\* C23: a read_object::<CodeModel>() whose root file loaded reads the satellites
\* in one order (configurations in document order, in each the targets before the
\* directories, in array order), one read for every reference; it stops at the
\* first file of this order that does not load and returns that file's error, and
\* otherwise ends after 1 + the number of references reads; a call under way has
\* read a prefix of this order
C23_FixedOrderFirstFailure ==
    \A t \in Threads :
        (/\ call[t].op = "read_object" /\ call[t].T = "CodeModelV2"
         /\ call[t].reads # <<>> /\ Loads("CodeModelV2", call[t].reads[1])) =>
            LET sats == SatellitesFrom(fs[call[t].reads[1]].json.configurations, 1)
                failing == {n \in 1..Len(sats) : ~Loads(sats[n].T, sats[n].file)}
                reads == call[t].reads
            IN  /\ Len(reads) <= 1 + Len(sats)
                /\ \A n \in 2..Len(reads) : reads[n] = sats[n - 1].file
                /\ failing # {} => Len(reads) <= 1 + MinOf(failing)
                /\ call[t].pc = "done" =>
                      IF failing = {}
                      THEN /\ call[t].ret.status = "Ok"
                           /\ Len(reads) = 1 + Len(sats)
                      ELSE /\ Len(reads) = 1 + MinOf(failing)
                           /\ call[t].ret.value = NoObject
                           /\ call[t].ret.status =
                                 IF CannotRead(sats[MinOf(failing)].file)
                                 THEN "IO" ELSE "Parse"

\* the second target of the first configuration does not load: the target before
\* it and the target itself were read, the four references after it were not
C23_Witness ==
    \E t \in Threads :
        /\ Done(t, "read_object") /\ call[t].T = "CodeModelV2"
        /\ call[t].reads = <<In(N_cm), In(N_t0), In(N_t1)>>
        /\ fs[In(N_cm)] = Json(CM_main)
        /\ call[t].ret.status \in {"IO", "Parse"}

\* the results of locating the index that are a path: those of index_file calls
\* and the one from_build_dir went on with
LocatedPaths ==
    {call[t].ret.value.path : t \in {u \in Threads : /\ Done(u, "index_file")
                                                      /\ call[u].ret.value.some}}
    \cup (IF ctor.status # "none" /\ ctor.index_file.some
          THEN {ctor.index_file.path} ELSE {})

\* C26: a path index_file returns is that of a regular file of the reply directory
\* whose name starts with "index-", in this letter case, and ends with ".json" in
\* any letter case; the directory index-d.json, index.json, Index-x.json and
\* index-x.json.bak are never returned; index-b.JSON is: where it is the only file
\* of this form, index_file returns it
C26_OnlyIndexFiles ==
    /\ \A p \in LocatedPaths :
          /\ Len(p) = Len(ReplyPath) + 1
          /\ SubSeq(p, 1, Len(ReplyPath)) = ReplyPath
          /\ fs[p].shape \in {"unreadable", "garbage", "json", "empty"}
          /\ Len(FileName(p)) >= 6
          /\ SubSeq(FileName(p), 1, 6) = <<"i","n","d","e","x","-">>
          /\ EndsWithDotJson(FileName(p))
          /\ FileName(p) \notin {N_index, N_Index_x, N_index_bak}
          /\ fs[p].shape # "dir"
    /\ \A t \in Threads :
          (/\ Done(t, "index_file")
           /\ fs[ReplyPath].shape = "dir"
           /\ fs[In(N_index_b)].shape \in {"unreadable", "garbage", "json", "empty"}
           /\ fs[In(N_index_a)].shape \in {"absent", "dir"})
              => call[t].ret.value = Some(In(N_index_b))

\* index_file returned index-b.JSON from a reply directory that also holds the
\* directory index-d.json and the files index.json, Index-x.json, index-x.json.bak
C26_Witness ==
    \E t \in Threads :
        /\ Done(t, "index_file")
        /\ call[t].ret.value = Some(In(N_index_b))
        /\ fs[In(N_index_d)].shape = "dir"
        /\ fs[In(N_index)].shape = "json"
        /\ fs[In(N_Index_x)].shape = "json"
        /\ fs[In(N_index_bak)].shape = "json"
        /\ fs[In(N_index_a)].shape = "absent"

\* C29: an object read_object::<T>() returns declares, in its own fields, the kind
\* and the major version of T
C29_SelfValidated ==
    \A t \in Threads :
        (Done(t, "read_object") /\ call[t].ret.status = "Ok") =>
            /\ call[t].ret.value.kind = Object_kind(call[t].T)
            /\ call[t].ret.value.version.major = Object_major(call[t].T)

(***************************************************************************)
(* Properties of direct resolution, checked under ResolverSpec.            *)
(***************************************************************************)
\* C22: a CodeModel on which resolve_references has just returned Ok, within
\* read_object or called by the host, once or again, has in every configuration as
\* many targets as target references and as many directories as directory
\* references
C22_PopulatedExactlyOnce ==
    \A t \in Threads :
        (/\ call[t].pc = "done" /\ call[t].T = "CodeModelV2"
         /\ call[t].op \in {"read_object", "resolve_references"}
         /\ call[t].ret.status = "Ok") =>
            \A i \in 1..Len(call[t].object.configurations) :
                LET config == call[t].object.configurations[i]
                IN  /\ Len(config.targets) = Len(config.target_refs)
                    /\ Len(config.directories) = Len(config.directory_refs)

\* the references of the configurations before the i-th
RECURSIVE RefsBefore(_, _)
RefsBefore(configurations, i) ==
    IF i <= 1
    THEN 0
    ELSE RefsBefore(configurations, i - 1)
         + Len(configurations[i - 1].target_refs)
         + Len(configurations[i - 1].directory_refs)

\* n cut to the range 0..max
Clamp(n, max) == IF n < 0 THEN 0 ELSE IF n > max THEN max ELSE n

\* C28: a resolve_references call of the host that returns Err leaves in the
\* CodeModel, after what its lists held before the call, the targets and the
\* directories of the references before the failing one, in order; read_object
\* returns no object when it fails
C28_NoRollBack ==
    \A t \in Threads :
        /\ (/\ call[t].pc = "done" /\ call[t].op = "resolve_references"
            /\ call[t].ret.status # "Ok") =>
              /\ call[t].ret.status \in {"IO", "Parse"}
              /\ Len(call[t].object.configurations) = Len(call[t].before.configurations)
              /\ \A i \in 1..Len(call[t].before.configurations) :
                    LET old == call[t].before.configurations[i]
                        new == call[t].object.configurations[i]
                        done == Len(call[t].reads) - 1 - RefsBefore(call[t].before.configurations, i)
                        nt == Clamp(done, Len(old.target_refs))
                        nd == Clamp(done - Len(old.target_refs), Len(old.directory_refs))
                    IN  /\ new.targets = old.targets \o
                              [j \in 1..nt |->
                                  Loaded("Target", Resolved(old.target_refs[j].json_file))]
                        /\ new.directories = old.directories \o
                              [j \in 1..nd |->
                                  Loaded("Directory", Resolved(old.directory_refs[j].json_file))]
        /\ (/\ call[t].pc = "done" /\ call[t].op = "read_object"
            /\ call[t].ret.status # "Ok") => call[t].ret.value = NoObject

\* a resolve_references call of the host on a CodeModel it deserialized failed on
\* the first directory of the first configuration: that configuration has both
\* its targets and no directory, the second configuration nothing
C28_Witness ==
    \E t \in Threads :
        /\ call[t].pc = "done" /\ call[t].op = "resolve_references"
        /\ call[t].ret.status \in {"IO", "Parse"}
        /\ call[t].before.configurations[1].targets = <<>>
        /\ Len(call[t].object.configurations[1].target_refs) = 2
        /\ Len(call[t].object.configurations[1].targets) = 2
        /\ Len(call[t].object.configurations[1].directory_refs) = 2
        /\ call[t].object.configurations[1].directories = <<>>
        /\ call[t].object.configurations[2].targets = <<>>

\* a resolve_references call of the host failed on the second target: the list of
\* targets is shorter than the list of target references
C28_WitnessFewerTargets ==
    \E t \in Threads :
        /\ call[t].pc = "done" /\ call[t].op = "resolve_references"
        /\ call[t].ret.status \in {"IO", "Parse"}
        /\ Len(call[t].object.configurations[1].targets) = 1
        /\ Len(call[t].object.configurations[1].target_refs) = 2

\* the kinds without cross-file references
PlainTypes == {"CacheV2", "ToolchainsV1", "CMakeFilesV1", "ConfigureLogV1"}

\* C24: for a type without cross-file references, read_object reads the one file
\* its catalog entry names and returns what this file decodes to, or IO or Parse
\* if it cannot be read or decoded, and never enters a resolution; a
\* resolve_references call of the host returns Ok, reads no file and leaves the
\* object as it was
C24_ResolutionIsNoOp ==
    \A t \in Threads :
        call[t].T \in PlainTypes =>
            /\ call[t].pc # "resolve"
            /\ Done(t, "read_object") =>
                  IF Matching(call[t].T) = {}
                  THEN call[t].reads = <<>> /\ call[t].ret.status = "ObjectNotFound"
                  ELSE /\ call[t].reads = <<RootFile(call[t].T)>>
                       /\ call[t].ret =
                             IF CannotRead(RootFile(call[t].T))
                             THEN [status |-> "IO", value |-> NoObject]
                             ELSE IF CannotDecode(call[t].T, RootFile(call[t].T))
                                  THEN [status |-> "Parse", value |-> NoObject]
                                  ELSE [status |-> "Ok",
                                        value |-> Loaded(call[t].T, RootFile(call[t].T))]
            /\ Done(t, "resolve_references") =>
                  /\ call[t].ret = [status |-> "Ok", value |-> NoObject]
                  /\ call[t].reads = <<>>
                  /\ call[t].object = call[t].before

\* the host called resolve_references a second time on the Cache it holds
C24_Witness ==
    \E t \in Threads :
        /\ Done(t, "resolve_references") /\ call[t].T = "CacheV2"
        /\ call[t].ret.status = "Ok"
        /\ call[t].object = Loaded("CacheV2", In(N_cache))
        /\ call[t].resolves = 2

\* C25: a write_stateful call on a writer whose client was never set returns
\* ClientNameNotSet and changes no file and no directory, whatever was requested
C25_ClientNameNotSet ==
    [][(written.stateful = "none" /\ written'.stateful # "none" /\ ~written.client.some) =>
          /\ written'.stateful = "ClientNameNotSet"
          /\ fs' = fs]_vars

\* write_stateful was refused on a writer with requests and without client, in a
\* build directory without a query directory: there is still none
C25_Witness ==
    /\ written.stateful = "ClientNameNotSet"
    /\ written.stateless = "none"
    /\ Len(written.calls) = 2
    /\ ~written.client.some
    /\ fs = NoBuildDir

(***************************************************************************)
(* CompileGroup of a codemodel-v2 target: compile command fragments, the   *)
(* tokens they split into, and the flags and defines taken from them.      *)
(* A string is the sequence of its characters.                             *)
(***************************************************************************)

\* most compile command fragments of a compile group
MaxFragments == 2
\* most explicit defines of a compile group
MaxDefines == 1

\* one step of shlex's scanner over the characters of s from position i:
\* a blank ends a word, a single quote opens or closes a literal run inside
\* a word, any other character is pushed on the current word; input that ends
\* inside a quote is an error
RECURSIVE shlex_scan(_, _, _, _, _)
shlex_scan(s, i, words, cur, mode) ==
    IF i > Len(s)
    THEN IF mode = "quote" THEN NoValue
         ELSE SomeValue(IF mode = "word" THEN Append(words, cur) ELSE words)
    ELSE IF mode = "quote"
         THEN IF s[i] = "'"
              THEN shlex_scan(s, i + 1, words, cur, "word")
              ELSE shlex_scan(s, i + 1, words, Append(cur, s[i]), "quote")
         ELSE IF s[i] = "'"
              THEN shlex_scan(s, i + 1, words, cur, "quote")
              ELSE IF s[i] = " "
                   THEN IF mode = "word"
                        THEN shlex_scan(s, i + 1, Append(words, cur), <<>>, "blank")
                        ELSE shlex_scan(s, i + 1, words, <<>>, "blank")
                   ELSE shlex_scan(s, i + 1, words, Append(cur, s[i]), "word")

\* shlex::split: None when the fragment's quoting is malformed
shlex_split(s) == shlex_scan(s, 1, <<>>, <<>>, "blank")

\* mutant: only the "-D" spelling counts as a define
is_define_DashOnly(flag) == StartsWith(flag, <<"-", "D">>)

\* CompileGroup::is_define
is_define(flag) == StartsWith(flag, <<"/", "D">>) \/ StartsWith(flag, <<"-", "D">>)

\* str::get(n..): None when n is past the end (every character here is one byte)
get_from(s, n) == IF n <= Len(s) THEN SomeValue(SubSeq(s, n + 1, Len(s))) ELSE NoValue

RECURSIVE compile_fragments_from(_, _)
compile_fragments_from(frags, i) ==
    IF i > Len(frags) THEN <<>>
    ELSE LET r == shlex_split(frags[i].fragment)
         IN  (IF r.some THEN r.value ELSE <<>>) \o compile_fragments_from(frags, i + 1)

\* CompileGroup::compile_fragments: filter_map(shlex::split) and flatten
compile_fragments(g) == compile_fragments_from(g.compile_command_fragments, 1)

RECURSIVE flags_from(_, _)
flags_from(tokens, i) ==
    IF i > Len(tokens) THEN <<>>
    ELSE (IF ~is_define(tokens[i]) THEN <<tokens[i]>> ELSE <<>>) \o flags_from(tokens, i + 1)

\* CompileGroup::flags
flags(g) == flags_from(compile_fragments(g), 1)

RECURSIVE defines_from(_, _)
defines_from(tokens, i) ==
    IF i > Len(tokens) THEN <<>>
    ELSE LET d == IF is_define(tokens[i]) THEN get_from(tokens[i], 2) ELSE NoValue
         IN  (IF d.some THEN <<d.value>> ELSE <<>>) \o defines_from(tokens, i + 1)

\* CompileGroup::defines: the explicit defines, extended by the stripped
\* define tokens
defines(g) ==
    [i \in 1..Len(g.defines) |-> g.defines[i].define]
        \o defines_from(compile_fragments(g), 1)

\* fragment: String, as cmake writes them
Fragments ==
    { <<"-", "D", "A">>,
      <<"-", "A", " ", "/", "D", "A">>,
      <<"'", "-", "D", " ", "A", "'", " ", "-", "D">>,
      <<"-", "A", "'">>,
      <<>>,
      <<"A", "-", "D">>,
      <<"/", "D">> }

\* define: String of an explicit define
DefineNames == { <<"B">>, <<"-", "D", "B">> }

SeqsUpTo(S, n) == UNION {[1..k -> S] : k \in 0..n}

CompileGroups ==
    [defines : SeqsUpTo([define : DefineNames], MaxDefines),
     compile_command_fragments : SeqsUpTo([fragment : Fragments], MaxFragments)]

FragmentInit ==
    /\ fs = NoBuildDir
    /\ reader = NoReader
    /\ ctor = [status |-> "none", index_file |-> None, cause |-> <<"none">>]
    /\ call = [t \in Threads |-> Idle]
    /\ writer = DefaultWriter
    /\ written = NoWrite
    /\ cg \in [group : CompileGroups, out : {NoOut}]

\* group.compile_fragments()
CompileFragments ==
    /\ cg' = [cg EXCEPT !.out.compile_fragments = SomeValue(compile_fragments(cg.group))]
    /\ UNCHANGED <<fs, reader, ctor, call, writer, written>>

\* group.flags()
Flags ==
    /\ cg' = [cg EXCEPT !.out.flags = SomeValue(flags(cg.group))]
    /\ UNCHANGED <<fs, reader, ctor, call, writer, written>>

\* group.defines()
Defines ==
    /\ cg' = [cg EXCEPT !.out.defines = SomeValue(defines(cg.group))]
    /\ UNCHANGED <<fs, reader, ctor, call, writer, written>>

FragmentNext == CompileFragments \/ Flags \/ Defines

FragmentSpec == FragmentInit /\ [][FragmentNext]_vars

\* a token that starts with -D or /D
DefineToken(tok) == Len(tok) >= 2 /\ tok[1] \in {"-", "/"} /\ tok[2] = "D"

\* the n-th smallest member of a set of positions
NthOf(S, n) == CHOOSE i \in S : Cardinality({j \in S : j <= i}) = n

\* C27: once the three accessors of a compile group have been called, flags()
\* is the tokens of compile_fragments() that do not start with -D or /D, in
\* order; defines() is the explicit defines in order followed by the tokens
\* that do start with -D or /D, each without its first two characters, in
\* order; no flag is a define token, and the lengths add up.
C27_FlagsDefinesPartition ==
    (cg.out.compile_fragments.some /\ cg.out.flags.some /\ cg.out.defines.some) =>
        LET tokens == cg.out.compile_fragments.value
            fl     == cg.out.flags.value
            de     == cg.out.defines.value
            ex     == cg.group.defines
            D      == {i \in 1..Len(tokens) : DefineToken(tokens[i])}
            F      == (1..Len(tokens)) \ D
        IN  /\ Len(fl) = Cardinality(F)
            /\ \A n \in 1..Len(fl) : fl[n] = tokens[NthOf(F, n)]
            /\ \A n \in 1..Len(fl) : ~DefineToken(fl[n])
            /\ Len(de) = Len(ex) + Cardinality(D)
            /\ \A n \in 1..Len(ex) : de[n] = ex[n].define
            /\ \A n \in 1..Cardinality(D) :
                  de[Len(ex) + n] = Tail(Tail(tokens[NthOf(D, n)]))
            /\ Len(fl) + Len(de) = Len(ex) + Len(tokens)

\* C27 witness: the three accessors were called on a group with an explicit
\* define, a flag token, a -D token and a /D token
C27_Witness ==
    /\ cg.out.compile_fragments.some /\ cg.out.flags.some /\ cg.out.defines.some
    /\ Len(cg.group.defines) > 0
    /\ \E i \in 1..Len(cg.out.compile_fragments.value) :
          StartsWith(cg.out.compile_fragments.value[i], <<"/", "D">>)
    /\ \E i \in 1..Len(cg.out.compile_fragments.value) :
          cg.out.compile_fragments.value[i] = <<"-", "D">>
    /\ Len(cg.out.flags.value) > 0
    /\ Len(cg.out.defines.value) >= Len(cg.group.defines) + 2

\* C27 witness: a fragment with malformed quoting contributed no token
C27_WitnessMalformed ==
    /\ cg.out.compile_fragments.some /\ cg.out.flags.some /\ cg.out.defines.some
    /\ \E i \in 1..Len(cg.group.compile_command_fragments) :
          ~shlex_split(cg.group.compile_command_fragments[i].fragment).some
    /\ Len(cg.out.compile_fragments.value) > 0

(***************************************************************************)
(* Regeneration: cmake rewrites the reply directory while the host holds a *)
(* Reader or is in the middle of read_object.  The library takes no lock   *)
(* (reply.rs opens each file with fs::read_to_string when it gets to it),  *)
(* so a rewrite can fall between any two reads.                            *)
(***************************************************************************)
\* the first generation: index-a.json catalogues cm.json and cache.json
Generation1 ==
    MkFs(Dir, (In(N_index_a) :> Json(IndexDoc(<<E_cm, E_cache>>))) @@ NoIndexLike)

\* the second generation: a new index catalogues the codemodel under a new
\* file name, the old index and the old codemodel file are gone, and the
\* target file t0.json has new content
Generation2 ==
    [Generation1 EXCEPT ![In(N_index_a)] = Absent,
                        ![In(N_index_b)] = Json(IndexDoc(<<E_cm_sub, E_cache>>)),
                        ![In(N_cm)] = Absent,
                        ![In(N_t0)] = Json([TargetDoc("app") EXCEPT !.type = "STATIC_LIBRARY"])]

\* generations as cmake may leave them: complete, with a target file removed,
\* with a target file partly written
Generations ==
    {Generation1, Generation2,
     [Generation2 EXCEPT ![In(N_t1)] = Absent],
     [Generation2 EXCEPT ![In(N_t0)] = Garbage]}

RegenInit ==
    /\ fs = Generation1
    /\ reader = NoReader
    /\ ctor = [status |-> "none", index_file |-> None, cause |-> <<"none">>]
    /\ call = [t \in Threads |-> Idle]
    /\ writer = DefaultWriter
    /\ written = NoWrite
    /\ cg = NoGroup

\* cmake runs again and rewrites the reply directory
Regenerate ==
    /\ fs' \in Generations \ {fs}
    /\ UNCHANGED <<reader, ctor, call, writer, written, cg>>

RegenNext ==
    \/ FromBuildDir
    \/ \E t \in Threads, T \in ObjectTypes : ReadObject(t, T)
    \/ \E t \in Threads : ResolveStep(t)
    \/ Regenerate

RegenSpec == RegenInit /\ [][RegenNext]_vars

\* C30: while the reply directory is rewritten at any moment, the Reader keeps
\* the catalog it parsed at construction; read_object looks the object up in
\* that catalog and reads the file it names; it ends with Ok, IO or Parse (or
\* ObjectNotFound when that catalog lacks the object), never with a status
\* that reports the regeneration.
C30_KeepsCatalogOfConstruction ==
    /\ [](\A t \in Threads :
            (call[t].op = "read_object" /\ call[t].pc = "done") =>
                LET ref == find_object(reader.index, Object_kind(call[t].T),
                                       Object_major(call[t].T))
                IN  /\ call[t].ret.status \in {"Ok", "IO", "Parse", "ObjectNotFound"}
                    /\ call[t].ret.status = "ObjectNotFound" <=> ~ref.some
                    /\ ref.some =>
                          call[t].reads[1] = PathJoin(dir(BuildDir), ref.ref.json_file))
    /\ [][reader.ready => reader' = reader]_vars

\* C30 witness: read_object returned Ok with a codemodel whose root file is of
\* the first generation (two configurations) and whose first target is of the
\* second (the new type), the index it was looked up in being gone
C30_Witness ==
    \E t \in Threads :
        /\ call[t].op = "read_object" /\ call[t].pc = "done"
        /\ call[t].ret.status = "Ok"
        /\ call[t].T = "CodeModelV2"
        /\ Len(call[t].ret.value.configurations) = 2
        /\ call[t].ret.value.configurations[1].targets[1].type_name = "STATIC_LIBRARY"
        /\ call[t].ret.value.configurations[1].targets[2].type_name = "EXECUTABLE"
        /\ ~Exists(fs, ctor.index_file.path)

\* C30 witness: the rewrite fell between the read of the root file and the
\* reads of the satellites, and read_object failed with IO
C30_WitnessIO ==
    \E t \in Threads :
        /\ call[t].op = "read_object" /\ call[t].pc = "done"
        /\ call[t].ret.status = "IO"
        /\ Len(call[t].reads) > 1

\* C30 witness: a partly written target file made read_object fail with Parse
C30_WitnessParse ==
    \E t \in Threads :
        /\ call[t].op = "read_object" /\ call[t].pc = "done"
        /\ call[t].ret.status = "Parse"
        /\ Len(call[t].reads) > 1

====
